---- MODULE Spec2Model ----
(***************************************************************************)
(* NewsArb: the kudos settlement engine, the discover endpoints, the       *)
(* weekly reset, the leaderboard ranker, the virality tracker with its     *)
(* decay detector, the background jobs, the matching engine and the        *)
(* canonical events, as state machines over the relational store.          *)
(*                                                                         *)
(* Every `await` of a handler is a point where other handlers may run, so  *)
(* every handler is a process whose steps are its store operations; a      *)
(* prisma.$transaction commits in one step.                                *)
(*                                                                         *)
(* Units.  Virality scores are kept to one decimal by the code             *)
(* (Math.round(score * 10) / 10), so they are integers in tenths here      *)
(* (80.0 is 800).  submittedAt is in half hours, so that fractional hours  *)
(* and the floor of the kudos formula are exercised.                       *)
(***************************************************************************)
EXTENDS Integers, Sequences, FiniteSets, TLC

---------------------------------------------------------------------------
(* Bounds of the model *)

MaxUsers == 2
MaxStories == 2
MaxSnapshots == 4
MaxSubmissions == 3
MaxRuns == 2
MaxEvents == 2
MaxJoined == 2
MaxOrder == 12
MaxFound == 22

UserIds == 1 .. MaxUsers
StoryIds == 1 .. MaxStories
EventIds == 1 .. MaxEvents

\* the time between two creations of a submission (half hours): 0.5h, 2h, 10h
Gaps == {1, 4, 20}

\* virality scores an update can compute (tenths)
ScoreChoices == {0, 300, 620, 680, 740, 800}

---------------------------------------------------------------------------
(* Constants of the program *)

Null == -1
ScoreScale == 10
UnitsPerHour == 2

BASE_KUDOS == 100
MAX_EARLY_BONUS == 100
MAX_TIMING_BONUS == 50
FIRST_SUBMITTER_MULTIPLIER == 2

---------------------------------------------------------------------------
(* Helpers *)

Max(a, b) == IF a >= b THEN a ELSE b

RECURSIVE SumSeq(_)
SumSeq(q) == IF q = << >> THEN 0 ELSE Head(q) + SumSeq(Tail(q))

RECURSIVE SumOver(_, _)
\* the sum of f[x] over the finite set S
SumOver(S, f) ==
    IF S = {} THEN 0
    ELSE LET x == CHOOSE y \in S : TRUE IN f[x] + SumOver(S \ {x}, f)

\* the orderings of a finite set that a sort by `key`, descending, can return
\* (the order among equal keys is the store's choice)
DescOrders(S, key) ==
    { q \in [1 .. Cardinality(S) -> S] :
        /\ \A i, j \in 1 .. Cardinality(S) : i # j => q[i] # q[j]
        /\ \A i, j \in 1 .. Cardinality(S) : i < j => key[q[i]] >= key[q[j]] }

---------------------------------------------------------------------------
(* State *)

VARIABLES
    story,              \* Story rows, by id
    submissions,        \* Submission rows, in creation order (the index is the id)
    users,              \* User rows (reputation fields), by id
    kudosHistory,       \* KudosHistory rows: a bag, entry -> number of such rows
    viralitySnapshots,  \* ViralitySnapshot rows per story, oldest first
    kproc,              \* settlement attempts: runKudosCheck, manualKudosDistribution, calculateKudos
    dproc,              \* discover requests
    rproc,              \* checkWeeklyReset / resetWeeklyKudos
    vproc,              \* virality updates: updateAllActiveVirality, POST /:storyId/refresh
    decay,              \* the last result of isViralityDecaying, per story
    checkIntervalId,    \* jobs/kudosCalculator: the handle of the check timer, or null
    resetIntervalId,    \* jobs/kudosCalculator: the handle of the weekly-reset timer, or null
    intervalId,         \* jobs/viralityTracker: the handle of its timer, or null
    timers,             \* the active setInterval timers of the process
    viralityRuns,       \* runViralityUpdate calls in flight
    jobCall,            \* the latest call of an exported job function, and how it went
    process,            \* the server process: "up", "closing" (in shutdown), "exited"
    MATCH_CONFIG,       \* ai/matcher: the configuration object (its thresholds)
    storyMatch,         \* Story rows, by id: the columns the matcher and the events use
    canonicalEvent,     \* CanonicalEvent rows, by id
    sproc,              \* POST /stories requests (routes/stories.ts)
    jproc,              \* POST /stories requests with joinMarketId (joinExistingMarket)
    joined,             \* the Story rows joinExistingMarket created, in creation order
    settleLoop,         \* calculateKudos: the loop over story.submissions, by position
    matchCall           \* findMatchingMarkets and determineMatch over a long candidate list

\* the background jobs and the process
jobs == << checkIntervalId, resetIntervalId, intervalId, timers, viralityRuns,
          jobCall, process >>

\* the matcher, the canonical events and the requests that use them
matching == << MATCH_CONFIG, storyMatch, canonicalEvent, sproc, jproc, joined >>

\* the settlement loop and the matcher's ranking over long lists
pure == << settleLoop, matchCall >>

\* what the request handlers and the services leave alone
aux == << jobs, matching, pure >>

vars == << story, submissions, users, kudosHistory, viralitySnapshots,
           kproc, dproc, rproc, vproc, decay, aux >>

db == << story, submissions, users, kudosHistory, viralitySnapshots >>

---------------------------------------------------------------------------
(* The store: rows and queries *)

NoStory ==
    [ exists |-> FALSE, status |-> "none", market |-> "none",
      kudosDistributed |-> FALSE, kudosPool |-> 0,
      currentViralityScore |-> Null, peakViralityScore |-> Null,
      viralityTrend |-> "none" ]

NewUser ==
    [ totalKudos |-> 0, weeklyKudos |-> 0, weeklyRank |-> Null, allTimeRank |-> Null ]

\* the ids of the submissions of story s
SubsOf(s) == { i \in DOMAIN submissions : submissions[i].storyId = s }

\* the ids of the submissions of user u on story s
SubsBy(u, s) == { i \in SubsOf(s) : submissions[i].userId = u }

\* story.submissions with orderBy: { submittedAt: "asc" }: every order the
\* store may return
SubmissionsAsc(s) ==
    { q \in [1 .. Cardinality(SubsOf(s)) -> SubsOf(s)] :
        /\ \A i, j \in DOMAIN q : i # j => q[i] # q[j]
        /\ \A i, j \in DOMAIN q :
              i < j => submissions[q[i]].submittedAt <= submissions[q[j]].submittedAt }

\* the submittedAt that now() gives a row created in this state: the first
\* creation is the origin of time, and a later one is later than every
\* existing row
NowChoices ==
    IF submissions = << >> THEN {0}
    ELSE { submissions[Len(submissions)].submittedAt + g : g \in Gaps }

BagCount(b, e) == IF e \in DOMAIN b THEN b[e] ELSE 0

\* the bag b with the rows of the bag c added
BagPlus(b, c) ==
    [ e \in (DOMAIN b) \cup (DOMAIN c) |-> BagCount(b, e) + BagCount(c, e) ]

HistoryEntry(u, amount, reason, s) ==
    [ userId |-> u, amount |-> amount, reason |-> reason, storyId |-> s ]

---------------------------------------------------------------------------
(* services/kudos: the kudos formula *)

\* the early bonus with the sign of the step reversed: what C21 rests on
EarlyBonus_Rising(submissionOrder) == Max(0, MAX_EARLY_BONUS + (submissionOrder - 1) * 10)

\* calculateKudosForSubmission: earlyBonus, by submissionOrder
EarlyBonus(submissionOrder) == Max(0, MAX_EARLY_BONUS - (submissionOrder - 1) * 10)

\* the formula with the early bonus counted from position 0: what C5 rests on
calculateKudosForSubmission_OrderFromZero(submissionOrder, peakViralityScore, sinceFirst, isFirstSubmitter) ==
    LET baseKudos == BASE_KUDOS
        earlyBonus == Max(0, MAX_EARLY_BONUS - submissionOrder * 10)
        timingBonusU == Max(0, MAX_TIMING_BONUS * UnitsPerHour - sinceFirst * 5)
        viralityBonus == (peakViralityScore \div (10 * ScoreScale)) * 5
        multiplier == IF isFirstSubmitter THEN FIRST_SUBMITTER_MULTIPLIER ELSE 1
    IN  (((baseKudos + earlyBonus + viralityBonus) * UnitsPerHour + timingBonusU) * multiplier)
            \div UnitsPerHour

\* hoursSinceFirstSubmission arrives in half hours (sinceFirst), so the
\* timing bonus is kept times UnitsPerHour until the final floor
calculateKudosForSubmission(submissionOrder, peakViralityScore, sinceFirst, isFirstSubmitter) ==
    LET baseKudos == BASE_KUDOS
        earlyBonus == EarlyBonus(submissionOrder)
        timingBonusU == Max(0, MAX_TIMING_BONUS * UnitsPerHour - sinceFirst * 5)
        viralityBonus == (peakViralityScore \div (10 * ScoreScale)) * 5
        multiplier == IF isFirstSubmitter THEN FIRST_SUBMITTER_MULTIPLIER ELSE 1
    IN  (((baseKudos + earlyBonus + viralityBonus) * UnitsPerHour + timingBonusU) * multiplier)
            \div UnitsPerHour

\* kudosEarned of the i-th submission of the list `subs` a settlement read
KudosAt(subs, peakVirality, i) ==
    calculateKudosForSubmission(
        i, peakVirality,
        submissions[subs[i]].submittedAt - submissions[subs[1]].submittedAt,
        submissions[subs[i]].isOriginal)

\* Math.floor(peakVirality / 10) * 5, the amount of a viral_bonus row
ViralBonus(peakVirality) == (peakVirality \div (10 * ScoreScale)) * 5

\* the rows one settlement transaction adds to KudosHistory, as a bag
SettlementEntries(s, subs, peakVirality) ==
    LET main(i) ==
            HistoryEntry(submissions[subs[i]].userId, KudosAt(subs, peakVirality, i),
                         IF submissions[subs[i]].isOriginal
                             THEN "first_discoverer" ELSE "early_discovery", s)
        viral(i) ==
            HistoryEntry(submissions[subs[i]].userId, ViralBonus(peakVirality),
                         "viral_bonus", s)
        hasViral == peakVirality >= 50 * ScoreScale
        all == { main(i) : i \in DOMAIN subs }
                 \cup (IF hasViral THEN { viral(i) : i \in DOMAIN subs } ELSE {})
    IN  [ e \in all |->
            Cardinality({ i \in DOMAIN subs : main(i) = e })
          + (IF hasViral THEN Cardinality({ i \in DOMAIN subs : viral(i) = e }) ELSE 0) ]

\* no settlement loop is being followed
NoLoop == [ submittedAt |-> << >>, earlyBonus |-> << >> ]

\* story.submissions as findUnique returns it, orderBy submittedAt asc: the
\* submittedAt column of lists of up to MaxOrder rows, ties included
SortedLists ==
    { [ i \in 1 .. n |-> SumSeq([ k \in 1 .. i |-> g[k] ]) ] :
        n \in 1 .. MaxOrder, g \in [ 1 .. MaxOrder -> {0, 1} ] }

\* calculateKudos, one turn of `for (let i = 0; i < story.submissions.length;
\* i++)`: submissionOrder = i + 1 and the early bonus that position gets
SettleLoopTurn ==
    /\ Len(settleLoop.earlyBonus) < Len(settleLoop.submittedAt)
    /\ LET submissionOrder == Len(settleLoop.earlyBonus) + 1 IN
       settleLoop' = [ settleLoop EXCEPT
           !.earlyBonus = Append(@, EarlyBonus(submissionOrder)) ]
    /\ UNCHANGED << db, kproc, dproc, rproc, vproc, decay, jobs, matching, matchCall >>

---------------------------------------------------------------------------
(* services/virality: the decay detector *)

determineTrend(velocityChange) ==
    IF velocityChange >= 5 * ScoreScale THEN "rising"
    ELSE IF velocityChange <= -5 * ScoreScale THEN "declining"
    ELSE "stable"

\* (peak - current) / peak > 0.4 in IEEE doubles, for scores on the 0.1 grid
\* of 0..100: the exact comparison, but for the one pair whose quotient
\* rounds above 0.4 (55.5, 33.3)
DropExceeds40(peak, current) ==
    \/ 10 * (peak - current) > 4 * peak
    \/ << peak, current >> = << 555, 333 >>

\* the most recent n snapshots of a story, newest first
LastSnapshots(s, n) ==
    LET q == viralitySnapshots[s]
        k == IF Len(q) < n THEN Len(q) ELSE n
    IN  [ i \in 1 .. k |-> q[Len(q) + 1 - i] ]

\* isViralityDecaying without the test for three snapshots: what C11 rests on
isViralityDecaying_NoMinimum(storyId) ==
    LET st == story[storyId]
        snapshots == LastSnapshots(storyId, 3)
        allDeclining == \A i \in DOMAIN snapshots : snapshots[i].trend = "declining"
        velocitySum == SumSeq([ i \in DOMAIN snapshots |-> snapshots[i].velocityChange ])
        sustainedDecline == velocitySum < (-5) * ScoreScale * Len(snapshots)
        droppedFromPeak ==
            /\ st.peakViralityScore # Null /\ st.peakViralityScore # 0
            /\ st.currentViralityScore # Null /\ st.currentViralityScore # 0
            /\ DropExceeds40(st.peakViralityScore, st.currentViralityScore)
    IN  IF ~ st.exists THEN [ isDecaying |-> FALSE, reason |-> "none" ]
        ELSE IF (allDeclining /\ sustainedDecline) \/ droppedFromPeak
             THEN [ isDecaying |-> TRUE,
                    reason |-> IF droppedFromPeak THEN "dropped from peak"
                               ELSE "sustained decline" ]
        ELSE [ isDecaying |-> FALSE, reason |-> "none" ]

isViralityDecaying(storyId) ==
    LET st == story[storyId]
        snapshots == LastSnapshots(storyId, 3)
        allDeclining == \A i \in DOMAIN snapshots : snapshots[i].trend = "declining"
        velocitySum == SumSeq([ i \in DOMAIN snapshots |-> snapshots[i].velocityChange ])
        sustainedDecline == velocitySum < (-5) * ScoreScale * Len(snapshots)
        droppedFromPeak ==
            /\ st.peakViralityScore # Null /\ st.peakViralityScore # 0
            /\ st.currentViralityScore # Null /\ st.currentViralityScore # 0
            /\ DropExceeds40(st.peakViralityScore, st.currentViralityScore)
    IN  IF ~ st.exists THEN [ isDecaying |-> FALSE, reason |-> "none" ]
        ELSE IF Len(snapshots) < 3 THEN [ isDecaying |-> FALSE, reason |-> "Not enough data" ]
        ELSE IF (allDeclining /\ sustainedDecline) \/ droppedFromPeak
             THEN [ isDecaying |-> TRUE,
                    reason |-> IF droppedFromPeak THEN "dropped from peak"
                               ELSE "sustained decline" ]
        ELSE [ isDecaying |-> FALSE, reason |-> "none" ]

---------------------------------------------------------------------------
(* Settlement attempts.  "sched" is the interval timer's runKudosCheck,    *)
(* "admin" a POST /markets/:id/distribute-kudos request running            *)
(* manualKudosDistribution, "direct" a caller of the exported              *)
(* calculateKudos.                                                         *)

SettleProcs == {"sched", "admin", "direct", "recalc"}

NoResult ==
    [ success |-> FALSE, totalKudosDistributed |-> Null, submissionsProcessed |-> Null ]

NotEligibleResult ==
    [ success |-> FALSE, totalKudosDistributed |-> 0, submissionsProcessed |-> 0 ]

IdleK ==
    [ pc |-> "idle", storyId |-> Null, todo |-> {}, subs |-> << >>, peak |-> 0,
      lbList |-> << >>, lbIdx |-> 0, lbSeen |-> << >>,
      result |-> NoResult, msg |-> "none" ]

\* calculateKudos returns `res` to its caller: the sweep goes on with its
\* next story, manualKudosDistribution builds its reply
Return(p, res) ==
    kproc' = [kproc EXCEPT ![p] =
        [ IdleK EXCEPT
            !.pc = IF p = "sched" THEN "loop" ELSE "done",
            !.todo = kproc[p].todo,
            !.storyId = IF p = "sched" THEN Null ELSE kproc[p].storyId,
            !.result = res,
            !.msg = IF p # "admin" THEN "none"
                    ELSE IF res.success THEN "distributed" ELSE "failed" ]]

\* runKudosCheck: findMany({ status: "active", kudosDistributed: false })
SweepStart(p) ==
    /\ p = "sched"
    /\ kproc[p].pc = "idle"
    /\ kproc' = [kproc EXCEPT ![p] =
          [ IdleK EXCEPT
              !.pc = "loop",
              !.todo = { s \in StoryIds : /\ story[s].exists
                                          /\ story[s].status = "active"
                                          /\ ~ story[s].kudosDistributed } ]]
    /\ UNCHANGED << db, dproc, rproc, vproc, decay, aux >>

\* the turn of the loop that checks the decay and never settles
SweepNext_NeverSettles(p) ==
    /\ kproc[p].pc = "loop"
    /\ kproc[p].todo # {}
    /\ \E s \in kproc[p].todo :
          kproc' = [kproc EXCEPT ![p] = [ IdleK EXCEPT !.todo = kproc[p].todo \ {s},
                                                      !.pc = "loop" ]]
    /\ UNCHANGED << db, dproc, rproc, vproc, decay, aux >>

\* runKudosCheck, one turn of `for (const story of activeStories)`:
\* isViralityDecaying, and calculateKudos when it says so
SweepNext(p) ==
    /\ kproc[p].pc = "loop"
    /\ kproc[p].todo # {}
    /\ \E s \in kproc[p].todo :
          LET decayCheck == isViralityDecaying(s) IN
          kproc' = [kproc EXCEPT ![p] =
              [ IdleK EXCEPT !.todo = kproc[p].todo \ {s},
                             !.pc = IF decayCheck.isDecaying THEN "calc" ELSE "loop",
                             !.storyId = IF decayCheck.isDecaying THEN s ELSE Null ]]
    /\ UNCHANGED << db, dproc, rproc, vproc, decay, aux >>

\* runKudosCheck: the loop is over
SweepDone(p) ==
    /\ kproc[p].pc = "loop"
    /\ kproc[p].todo = {}
    /\ kproc' = [kproc EXCEPT ![p] = IdleK]
    /\ UNCHANGED << db, dproc, rproc, vproc, decay, aux >>

\* manualKudosDistribution(storyId): its own findUnique and its two refusals
ManualStart(p, s) ==
    /\ p = "admin"
    /\ kproc[p].pc = "idle"
    /\ kproc' = [kproc EXCEPT ![p] =
          IF ~ story[s].exists
          THEN [ IdleK EXCEPT !.pc = "done", !.msg = "Story not found" ]
          ELSE IF story[s].kudosDistributed
               THEN [ IdleK EXCEPT !.pc = "done",
                                   !.msg = "Kudos already distributed for this story" ]
          ELSE [ IdleK EXCEPT !.pc = "calc", !.storyId = s ]]
    /\ UNCHANGED << db, dproc, rproc, vproc, decay, aux >>

\* a direct call of calculateKudos(storyId)
DirectCall(p, s) ==
    /\ p = "direct"
    /\ kproc[p].pc = "idle"
    /\ kproc' = [kproc EXCEPT ![p] = [ IdleK EXCEPT !.pc = "calc", !.storyId = s ]]
    /\ UNCHANGED << db, dproc, rproc, vproc, decay, aux >>

\* the caller of manualKudosDistribution or calculateKudos has its answer
Answered(p) ==
    /\ kproc[p].pc = "done"
    /\ kproc' = [kproc EXCEPT ![p] = IdleK]
    /\ UNCHANGED << db, dproc, rproc, vproc, decay, aux >>

\* NotEligible without the settle-once test: what C2 rests on
NotEligible_NoSettledTest(s) ==
    \/ ~ story[s].exists
    \/ SubsOf(s) = {}

\* calculateKudos: the three refusals of the story it read
NotEligible(s) ==
    \/ ~ story[s].exists
    \/ story[s].kudosDistributed
    \/ SubsOf(s) = {}

\* calculateKudos: findUnique of the story with its submissions, and either a
\* "not eligible" result or the values the transaction will work from
CalcRead(p) ==
    /\ kproc[p].pc = "calc"
    /\ LET s == kproc[p].storyId IN
       IF NotEligible(s)
       THEN Return(p, NotEligibleResult)
       ELSE \E subs \in SubmissionsAsc(s) :
               kproc' = [kproc EXCEPT ![p] =
                   [ @ EXCEPT
                       !.pc = "txn",
                       !.subs = subs,
                       !.peak = IF story[s].peakViralityScore = Null
                                THEN 0 ELSE story[s].peakViralityScore,
                       !.result = NoResult ]]
    /\ UNCHANGED << db, dproc, rproc, vproc, decay, aux >>

\* totalKudosDistributed of a settlement
TotalKudos(subs, peakVirality) ==
    SumSeq([ i \in DOMAIN subs |-> KudosAt(subs, peakVirality, i) ])

\* the index of submission id j in the list subs (0 when it is not in it)
IndexIn(subs, j) ==
    IF \E i \in DOMAIN subs : subs[i] = j
    THEN CHOOSE i \in DOMAIN subs : subs[i] = j
    ELSE 0

\* calculateKudos: the prisma.$transaction, committed
CalcTxn(p) ==
    /\ kproc[p].pc = "txn"
    /\ LET s == kproc[p].storyId
           subs == kproc[p].subs
           peakVirality == kproc[p].peak
           credit(u) == SumSeq([ i \in DOMAIN subs |->
                           IF submissions[subs[i]].userId = u
                           THEN KudosAt(subs, peakVirality, i) ELSE 0 ])
       IN
       /\ submissions' = [ j \in DOMAIN submissions |->
             IF IndexIn(subs, j) # 0
             THEN [ submissions[j] EXCEPT
                      !.kudosEarned = KudosAt(subs, peakVirality, IndexIn(subs, j)) ]
             ELSE submissions[j] ]
       /\ users' = [ u \in UserIds |->
             [ users[u] EXCEPT !.totalKudos = @ + credit(u),
                               !.weeklyKudos = @ + credit(u) ]]
       /\ kudosHistory' = BagPlus(kudosHistory, SettlementEntries(s, subs, peakVirality))
       /\ story' = [story EXCEPT ![s] =
             [ @ EXCEPT !.kudosDistributed = TRUE,
                        !.kudosPool = TotalKudos(subs, peakVirality),
                        !.status = "settled" ]]
    /\ kproc' = [kproc EXCEPT ![p] = [ @ EXCEPT !.pc = "lbw_read" ]]
    /\ UNCHANGED << viralitySnapshots, dproc, rproc, vproc, decay, aux >>

\* every user's weekly and all-time kudos (what a run of updateLeaderboards
\* found when it began)
KudosNow == [ u \in UserIds |-> << users[u].weeklyKudos, users[u].totalKudos >> ]

WeeklyKey == [ u \in UserIds |-> users[u].weeklyKudos ]
AllTimeKey == [ u \in UserIds |-> users[u].totalKudos ]

\* updateLeaderboards: findMany({ weeklyKudos: { gt: 0 } }, orderBy desc)
LbWeeklyRead(p) ==
    /\ kproc[p].pc = "lbw_read"
    /\ \E q \in DescOrders({ u \in UserIds : users[u].weeklyKudos > 0 }, WeeklyKey) :
          kproc' = [kproc EXCEPT ![p] =
              [ @ EXCEPT !.lbList = q, !.lbIdx = 1, !.lbSeen = KudosNow,
                         !.pc = IF Len(q) = 0 THEN "lba_read" ELSE "lbw_write" ]]
    /\ UNCHANGED << db, dproc, rproc, vproc, decay, aux >>

\* updateLeaderboards: one user.update({ weeklyRank: i + 1 })
LbWeeklyWrite(p) ==
    /\ kproc[p].pc = "lbw_write"
    /\ LET i == kproc[p].lbIdx
           q == kproc[p].lbList
       IN /\ users' = [users EXCEPT ![q[i]] = [ @ EXCEPT !.weeklyRank = i ]]
          /\ kproc' = [kproc EXCEPT ![p] =
                [ @ EXCEPT !.lbIdx = i + 1,
                           !.pc = IF i = Len(q) THEN "lba_read" ELSE "lbw_write" ]]
    /\ UNCHANGED << story, submissions, kudosHistory, viralitySnapshots,
                    dproc, rproc, vproc, decay, aux >>

\* updateLeaderboards: findMany({ totalKudos: { gt: 0 } }, orderBy desc)
LbAllTimeRead(p) ==
    /\ kproc[p].pc = "lba_read"
    /\ \E q \in DescOrders({ u \in UserIds : users[u].totalKudos > 0 }, AllTimeKey) :
          kproc' = [kproc EXCEPT ![p] =
              [ @ EXCEPT !.lbList = q, !.lbIdx = 1,
                         !.pc = IF Len(q) = 0 THEN "cache" ELSE "lba_write" ]]
    /\ UNCHANGED << db, dproc, rproc, vproc, decay, aux >>

\* updateLeaderboards: one user.update({ allTimeRank: i + 1 })
LbAllTimeWrite(p) ==
    /\ kproc[p].pc = "lba_write"
    /\ LET i == kproc[p].lbIdx
           q == kproc[p].lbList
       IN /\ users' = [users EXCEPT ![q[i]] = [ @ EXCEPT !.allTimeRank = i ]]
          /\ kproc' = [kproc EXCEPT ![p] =
                [ @ EXCEPT !.lbIdx = i + 1,
                           !.pc = IF i = Len(q) THEN "cache" ELSE "lba_write" ]]
    /\ UNCHANGED << story, submissions, kudosHistory, viralitySnapshots,
                    dproc, rproc, vproc, decay, aux >>

\* POST /leaderboards/recalculate: updateLeaderboards is called
RecalcStart(p) ==
    /\ p = "recalc"
    /\ kproc[p].pc = "idle"
    /\ kproc' = [kproc EXCEPT ![p] = [ IdleK EXCEPT !.pc = "lbw_read" ]]
    /\ UNCHANGED << db, dproc, rproc, vproc, decay, aux >>

\* POST /leaderboards/recalculate: the reply
RecalcReturn(p) ==
    /\ p = "recalc"
    /\ kproc[p].pc = "cache"
    /\ kproc' = [kproc EXCEPT ![p] = IdleK]
    /\ UNCHANGED << db, dproc, rproc, vproc, decay, aux >>

\* calculateKudos: the two deleteCache calls and the successful return
CalcReturn(p) ==
    /\ kproc[p].pc = "cache"
    /\ Return(p, [ success |-> TRUE,
                   totalKudosDistributed |-> TotalKudos(kproc[p].subs, kproc[p].peak),
                   submissionsProcessed |-> Len(kproc[p].subs) ])
    /\ UNCHANGED << db, dproc, rproc, vproc, decay, aux >>

---------------------------------------------------------------------------
(* Discover requests.  Route "stories" is discoverExistingStory (POST      *)
(* /stories/:id/discover and POST /stories with discoverStoryId), route    *)
(* "markets" is POST /markets/:id/discover.                                *)

DiscProcs == {"d1", "d2"}
Routes == {"stories", "markets"}

IdleD ==
    [ pc |-> "idle", userId |-> Null, storyId |-> Null, route |-> "none",
      count |-> Null, had |-> FALSE, reply |-> 0 ]

\* a request arrives; `had` notes whether the user already had a submission
\* on the story when it was issued
\* the bound on the submission rows: a request that may add a row starts
\* only while there is room for it
RoomForSubmission ==
    Len(submissions)
        + Cardinality({ e \in DiscProcs : dproc[e].pc \notin {"idle", "done"} })
            < MaxSubmissions

DiscoverStart(d, u, s, route) ==
    /\ dproc[d].pc = "idle"
    /\ SubsBy(u, s) # {} \/ RoomForSubmission
    /\ dproc' = [dproc EXCEPT ![d] =
          [ IdleD EXCEPT !.pc = "story", !.userId = u, !.storyId = s,
                         !.route = route, !.had = (SubsBy(u, s) # {}) ]]
    /\ UNCHANGED << db, kproc, rproc, vproc, decay, aux >>

\* the status test of both routes
AcceptsDiscoveries(s) == story[s].status = "active" \/ story[s].status = "pending"

\* story.findUnique: 404, 400, or go on (discoverExistingStory reads
\* _count.submissions in the same query)
DiscoverReadStory(d) ==
    /\ dproc[d].pc = "story"
    /\ LET s == dproc[d].storyId IN
       dproc' = [dproc EXCEPT ![d] =
          IF ~ story[s].exists THEN [ @ EXCEPT !.pc = "done", !.reply = 404 ]
          ELSE IF ~ AcceptsDiscoveries(s) THEN [ @ EXCEPT !.pc = "done", !.reply = 400 ]
          ELSE [ @ EXCEPT !.pc = "existing",
                          !.count = IF dproc[d].route = "stories"
                                    THEN Cardinality(SubsOf(s)) ELSE Null ]]
    /\ UNCHANGED << db, kproc, rproc, vproc, decay, aux >>

\* submission.findFirst({ userId, storyId }): 409, or go on
DiscoverFindExisting(d) ==
    /\ dproc[d].pc = "existing"
    /\ dproc' = [dproc EXCEPT ![d] =
          IF SubsBy(dproc[d].userId, dproc[d].storyId) # {}
          THEN [ @ EXCEPT !.pc = "done", !.reply = 409 ]
          ELSE [ @ EXCEPT !.pc = IF dproc[d].route = "markets" THEN "count" ELSE "create" ]]
    /\ UNCHANGED << db, kproc, rproc, vproc, decay, aux >>

\* POST /markets/:id/discover: submission.count({ storyId })
DiscoverCount(d) ==
    /\ dproc[d].pc = "count"
    /\ dproc' = [dproc EXCEPT ![d] =
          [ @ EXCEPT !.pc = "create", !.count = Cardinality(SubsOf(dproc[d].storyId)) ]]
    /\ UNCHANGED << db, kproc, rproc, vproc, decay, aux >>

\* the row submission.create adds (kudosEarned starts at 0)
NewSubmission(u, s, t, isOriginal) ==
    [ userId |-> u, storyId |-> s, submittedAt |-> t, isOriginal |-> isOriginal,
      kudosEarned |-> 0 ]

\* submission.create, then (route "stories") deleteCache, then the 200 reply
DiscoverCreate(d) ==
    /\ dproc[d].pc = "create"
    /\ \E t \in NowChoices :
          submissions' = Append(submissions,
              NewSubmission(dproc[d].userId, dproc[d].storyId, t, dproc[d].count = 0))
    /\ dproc' = [dproc EXCEPT ![d] = [ @ EXCEPT !.pc = "done", !.reply = 200 ]]
    /\ UNCHANGED << story, users, kudosHistory, viralitySnapshots,
                    kproc, rproc, vproc, decay, aux >>

\* the reply is sent
DiscoverReply(d) ==
    /\ dproc[d].pc = "done"
    /\ dproc' = [dproc EXCEPT ![d] = IdleD]
    /\ UNCHANGED << db, kproc, rproc, vproc, decay, aux >>

---------------------------------------------------------------------------
(* The weekly reset: checkWeeklyReset calling resetWeeklyKudos *)

IdleR == [ pc |-> "idle", usersWithKudos |-> {} ]

\* resetWeeklyKudos: findMany({ weeklyKudos: { gt: 0 } })
ResetRead ==
    /\ rproc.pc = "idle"
    /\ rproc' = [ pc |-> "txn",
                  usersWithKudos |->
                      { [ id |-> u, weeklyKudos |-> users[u].weeklyKudos ] :
                          u \in { v \in UserIds : users[v].weeklyKudos > 0 } } ]
    /\ UNCHANGED << db, kproc, dproc, vproc, decay, aux >>

\* the weekly_reset rows of one reset, as a bag
ResetEntries(usersWithKudos) ==
    [ e \in { HistoryEntry(r.id, 0 - r.weeklyKudos, "weekly_reset", Null) :
                r \in usersWithKudos } |-> 1 ]

\* ResetUser clearing the all-time total too: what C8 rests on
ResetUser_ClearsTotal(row) ==
    [ row EXCEPT !.weeklyKudos = 0, !.weeklyRank = Null, !.totalKudos = 0 ]

\* the user fields the reset's updateMany writes
ResetUser(row) == [ row EXCEPT !.weeklyKudos = 0, !.weeklyRank = Null ]

\* resetWeeklyKudos: the prisma.$transaction, committed
ResetTxn ==
    /\ rproc.pc = "txn"
    /\ kudosHistory' = BagPlus(kudosHistory, ResetEntries(rproc.usersWithKudos))
    /\ users' = [ u \in UserIds |-> ResetUser(users[u]) ]
    /\ rproc' = [ rproc EXCEPT !.pc = "cache" ]
    /\ UNCHANGED << story, submissions, viralitySnapshots, kproc, dproc, vproc, decay, aux >>

\* resetWeeklyKudos: deleteCache("leaderboards:*") and the return
ResetReturn ==
    /\ rproc.pc = "cache"
    /\ rproc' = IdleR
    /\ UNCHANGED << db, kproc, dproc, vproc, decay, aux >>

\* POST /stories, the "Create new story" transaction: the story row and the
\* submission of its original discoverer (classification.approved decides
\* between active and pending)
CreateStory(u, approved) ==
    /\ RoomForSubmission
    /\ \E s \in StoryIds :
          /\ ~ story[s].exists
          /\ \A r \in StoryIds : r < s => story[r].exists
          /\ \E t \in NowChoices :
                submissions' = Append(submissions, NewSubmission(u, s, t, TRUE))
          /\ story' = [story EXCEPT ![s] =
                [ NoStory EXCEPT !.exists = TRUE,
                                 !.status = IF approved THEN "active" ELSE "pending" ]]
    /\ UNCHANGED << users, kudosHistory, viralitySnapshots,
                    kproc, dproc, rproc, vproc, decay, aux >>

---------------------------------------------------------------------------
(* Virality updates.  "tick" is the tracker's runViralityUpdate calling    *)
(* updateAllActiveVirality, "refresh" a POST /virality/:storyId/refresh.   *)

VirProcs == {"tick", "refresh"}

IdleV ==
    [ pc |-> "idle", storyId |-> Null, todo |-> {}, peakRead |-> Null,
      score |-> Null, velocityChange |-> 0, trend |-> "none" ]

\* the updates of story s that are past their start and before their snapshot
InFlight(s) ==
    Cardinality({ v \in VirProcs : /\ vproc[v].storyId = s
                                   /\ vproc[v].pc \in {"read", "prev", "snap"} })

\* the bound on the snapshots of a story
MayUpdate(s) == Len(viralitySnapshots[s]) + InFlight(s) < MaxSnapshots

\* updateAllActiveVirality: findMany({ status: "active", market: { status: "open" } })
TickStart(v) ==
    /\ v = "tick"
    /\ vproc[v].pc = "idle"
    /\ vproc' = [vproc EXCEPT ![v] =
          [ IdleV EXCEPT
              !.pc = "loop",
              !.todo = { s \in StoryIds : /\ story[s].exists
                                          /\ story[s].status = "active"
                                          /\ story[s].market = "open" } ]]
    /\ UNCHANGED << db, kproc, dproc, rproc, decay, aux >>

\* updateAllActiveVirality: one turn of the loop calls updateStoryVirality
TickNext(v) ==
    /\ vproc[v].pc = "loop"
    /\ \E s \in vproc[v].todo :
          /\ MayUpdate(s)
          /\ vproc' = [vproc EXCEPT ![v] =
                [ @ EXCEPT !.todo = @ \ {s}, !.pc = "read", !.storyId = s ]]
    /\ UNCHANGED << db, kproc, dproc, rproc, decay, aux >>

\* updateAllActiveVirality: the loop is over
TickDone(v) ==
    /\ vproc[v].pc = "loop"
    /\ vproc[v].todo = {}
    /\ vproc' = [vproc EXCEPT ![v] = IdleV]
    /\ UNCHANGED << db, kproc, dproc, rproc, decay, aux >>

\* POST /:storyId/refresh: 404 for an unknown story, else updateStoryVirality
RefreshStart(v, s) ==
    /\ v = "refresh"
    /\ vproc[v].pc = "idle"
    /\ story[s].exists
    /\ MayUpdate(s)
    /\ vproc' = [vproc EXCEPT ![v] = [ IdleV EXCEPT !.pc = "read", !.storyId = s ]]
    /\ UNCHANGED << db, kproc, dproc, rproc, decay, aux >>

\* updateStoryVirality: findUnique of the story (its peak), and the score
\* calculateVirality computes from the metrics it fetches
UpdateRead(v) ==
    /\ vproc[v].pc = "read"
    /\ \E score \in ScoreChoices :
          vproc' = [vproc EXCEPT ![v] =
              [ @ EXCEPT !.pc = "prev", !.score = score,
                         !.peakRead = story[vproc[v].storyId].peakViralityScore ]]
    /\ UNCHANGED << db, kproc, dproc, rproc, decay, aux >>

\* getPreviousScore: the score of the latest snapshot, or null
getPreviousScore(s) ==
    IF viralitySnapshots[s] = << >> THEN Null
    ELSE viralitySnapshots[s][Len(viralitySnapshots[s])].viralityScore

\* calculateVirality: the velocity against the previous score
VelocityChange(previousScore, score) ==
    IF previousScore # Null THEN score - previousScore ELSE 0

\* calculateVirality: getPreviousScore, velocityChange and trend
UpdatePrev(v) ==
    /\ vproc[v].pc = "prev"
    /\ LET velocityChange == VelocityChange(getPreviousScore(vproc[v].storyId), vproc[v].score)
       IN vproc' = [vproc EXCEPT ![v] =
              [ @ EXCEPT !.pc = "snap", !.velocityChange = velocityChange,
                         !.trend = determineTrend(velocityChange) ]]
    /\ UNCHANGED << db, kproc, dproc, rproc, decay, aux >>

Snapshot(score, velocityChange, trend) ==
    [ viralityScore |-> score, velocityChange |-> velocityChange, trend |-> trend ]

\* updateStoryVirality: viralitySnapshot.create
UpdateSnapshot(v) ==
    /\ vproc[v].pc = "snap"
    /\ viralitySnapshots' = [viralitySnapshots EXCEPT ![vproc[v].storyId] =
          Append(@, Snapshot(vproc[v].score, vproc[v].velocityChange, vproc[v].trend))]
    /\ vproc' = [vproc EXCEPT ![v] = [ @ EXCEPT !.pc = "update" ]]
    /\ UNCHANGED << story, submissions, users, kudosHistory, kproc, dproc, rproc, decay, aux >>

\* updateStoryVirality: Math.max(story.peakViralityScore ?? 0, result.score)
NewPeak(peakRead, score) == Max(IF peakRead = Null THEN 0 ELSE peakRead, score)

\* updateStoryVirality: story.update of current, peak and trend; then the
\* caller goes on (the tick with its next story)
UpdateStory(v) ==
    /\ vproc[v].pc = "update"
    /\ story' = [story EXCEPT ![vproc[v].storyId] =
          [ @ EXCEPT !.currentViralityScore = vproc[v].score,
                     !.peakViralityScore = NewPeak(vproc[v].peakRead, vproc[v].score),
                     !.viralityTrend = vproc[v].trend ]]
    /\ vproc' = [vproc EXCEPT ![v] =
          [ IdleV EXCEPT !.pc = IF v = "tick" THEN "loop" ELSE "idle",
                         !.todo = vproc[v].todo ]]
    /\ UNCHANGED << submissions, users, kudosHistory, viralitySnapshots,
                    kproc, dproc, rproc, decay, aux >>

\* a call of isViralityDecaying(storyId) (GET /virality/:storyId), its result kept
DecayCheck(s) ==
    /\ decay' = [decay EXCEPT ![s] = isViralityDecaying(s)]
    /\ UNCHANGED << db, kproc, dproc, rproc, vproc, aux >>

---------------------------------------------------------------------------
(* jobs/kudosCalculator, jobs/viralityTracker and the shutdown of index.ts. *)
(* The start and stop functions are synchronous, so each is one step.       *)

JobFunctions ==
    { "startKudosCalculator", "stopKudosCalculator",
      "startViralityTracker", "stopViralityTracker" }

\* the handles of the active timers
TimerIds == { t.id : t \in timers }

\* setInterval: a handle no active timer has
FreshTimer(used) == CHOOSE i \in 1 .. Cardinality(used) + 1 : i \notin used

Timer(id, fn) == [ id |-> id, fn |-> fn ]

\* clearInterval(id)
ClearInterval(ts, id) == { t \in ts : t.id # id }

\* some code calls an exported function of the two job modules (a call
\* returns before the next one: the functions are synchronous)
CallJob(f) ==
    /\ process # "exited"
    /\ jobCall.returned
    /\ jobCall' = [ fn |-> f, returned |-> FALSE, wasRunning |-> FALSE ]
    /\ UNCHANGED << db, kproc, dproc, rproc, vproc, decay, matching, pure,
                    checkIntervalId, resetIntervalId, intervalId, timers,
                    viralityRuns, process >>

\* startKudosCalculator: nothing when the check timer exists, else the two
\* setInterval calls
startKudosCalculator ==
    /\ process # "exited"
    /\ jobCall.fn = "startKudosCalculator" /\ ~ jobCall.returned
    /\ jobCall' = [ jobCall EXCEPT !.returned = TRUE, !.wasRunning = (checkIntervalId # Null) ]
    /\ IF checkIntervalId # Null
       THEN UNCHANGED << checkIntervalId, resetIntervalId, timers >>
       ELSE LET c == FreshTimer(TimerIds)
                r == FreshTimer(TimerIds \cup {c})
            IN  /\ checkIntervalId' = c
                /\ resetIntervalId' = r
                /\ timers' = timers \cup { Timer(c, "runKudosCheck"),
                                            Timer(r, "checkWeeklyReset") }
    /\ UNCHANGED << db, kproc, dproc, rproc, vproc, decay, matching, pure,
                    intervalId, viralityRuns, process >>

\* the effect of stopKudosCalculator on the timers
StopCalculatorTimers(ts) ==
    LET a == IF checkIntervalId # Null THEN ClearInterval(ts, checkIntervalId) ELSE ts
    IN  IF resetIntervalId # Null THEN ClearInterval(a, resetIntervalId) ELSE a

\* the effect of stopViralityTracker on the timers
StopTrackerTimers(ts) ==
    IF intervalId # Null THEN ClearInterval(ts, intervalId) ELSE ts

stopKudosCalculator ==
    /\ process # "exited"
    /\ jobCall.fn = "stopKudosCalculator" /\ ~ jobCall.returned
    /\ jobCall' = [ jobCall EXCEPT !.returned = TRUE, !.wasRunning = (checkIntervalId # Null) ]
    /\ timers' = StopCalculatorTimers(timers)
    /\ checkIntervalId' = Null
    /\ resetIntervalId' = Null
    /\ UNCHANGED << db, kproc, dproc, rproc, vproc, decay, matching, pure,
                    intervalId, viralityRuns, process >>

\* startViralityTracker without its test of intervalId: what C12 rests on
startViralityTracker_Unguarded ==
    /\ process # "exited"
    /\ jobCall.fn = "startViralityTracker" /\ ~ jobCall.returned
    /\ viralityRuns < MaxRuns
    /\ jobCall' = [ jobCall EXCEPT !.returned = TRUE, !.wasRunning = (intervalId # Null) ]
    /\ viralityRuns' = viralityRuns + 1
    /\ intervalId' = FreshTimer(TimerIds)
    /\ timers' = timers \cup { Timer(FreshTimer(TimerIds), "runViralityUpdate") }
    /\ UNCHANGED << db, kproc, dproc, rproc, vproc, decay, matching, pure,
                    checkIntervalId, resetIntervalId, process >>

\* startViralityTracker: nothing when the timer exists, else an immediate
\* runViralityUpdate and the setInterval call
startViralityTracker ==
    /\ process # "exited"
    /\ jobCall.fn = "startViralityTracker" /\ ~ jobCall.returned
    /\ intervalId = Null => viralityRuns < MaxRuns
    /\ jobCall' = [ jobCall EXCEPT !.returned = TRUE, !.wasRunning = (intervalId # Null) ]
    /\ IF intervalId # Null
       THEN UNCHANGED << intervalId, timers, viralityRuns >>
       ELSE /\ viralityRuns' = viralityRuns + 1
            /\ intervalId' = FreshTimer(TimerIds)
            /\ timers' = timers \cup { Timer(FreshTimer(TimerIds), "runViralityUpdate") }
    /\ UNCHANGED << db, kproc, dproc, rproc, vproc, decay, matching, pure,
                    checkIntervalId, resetIntervalId, process >>

stopViralityTracker ==
    /\ process # "exited"
    /\ jobCall.fn = "stopViralityTracker" /\ ~ jobCall.returned
    /\ jobCall' = [ jobCall EXCEPT !.returned = TRUE, !.wasRunning = (intervalId # Null) ]
    /\ timers' = StopTrackerTimers(timers)
    /\ intervalId' = Null
    /\ UNCHANGED << db, kproc, dproc, rproc, vproc, decay, matching, pure,
                    checkIntervalId, resetIntervalId, viralityRuns, process >>

isCalculatorRunning == checkIntervalId # Null

isTrackerRunning == intervalId # Null

\* the timer of fn is active
TimerActive(fn) == \E t \in timers : t.fn = fn

\* the tracker's timer fires: a runViralityUpdate begins
ViralityTimerFires ==
    /\ process # "exited"
    /\ TimerActive("runViralityUpdate")
    /\ viralityRuns < MaxRuns
    /\ viralityRuns' = viralityRuns + 1
    /\ UNCHANGED << db, kproc, dproc, rproc, vproc, decay, matching, pure,
                    checkIntervalId, resetIntervalId, intervalId, timers,
                    jobCall, process >>

\* a runViralityUpdate is over
ViralityRunEnds ==
    /\ process # "exited"
    /\ viralityRuns > 0
    /\ viralityRuns' = viralityRuns - 1
    /\ UNCHANGED << db, kproc, dproc, rproc, vproc, decay, matching, pure,
                    checkIntervalId, resetIntervalId, intervalId, timers,
                    jobCall, process >>

\* index.ts, shutdown on SIGTERM or SIGINT: the two stop calls, and
\* fastify.close() is awaited
Shutdown ==
    /\ process = "up"
    /\ timers' = StopCalculatorTimers(StopTrackerTimers(timers))
    /\ intervalId' = Null
    /\ checkIntervalId' = Null
    /\ resetIntervalId' = Null
    /\ process' = "closing"
    /\ UNCHANGED << db, kproc, dproc, rproc, vproc, decay, matching, pure, viralityRuns, jobCall >>

\* index.ts, shutdown: fastify.close() has resolved, process.exit(0)
ProcessExit ==
    /\ process = "closing"
    /\ process' = "exited"
    /\ UNCHANGED << db, kproc, dproc, rproc, vproc, decay, matching, pure,
                    checkIntervalId, resetIntervalId, intervalId, timers,
                    viralityRuns, jobCall >>

---------------------------------------------------------------------------
(* The matching engine: ai/matcher.ts and POST /stories of routes/stories.ts *)
(*                                                                           *)
(* Units.  Sub-scores and thresholds are in hundredths (0.80 is 80), the     *)
(* weights are in hundredths, so a composite score is in ten-thousandths     *)
(* (0.80 is 8000).  The composite here is the exact weighted sum; the code's *)
(* double may differ from it in the last place.                              *)

\* MATCH_CONFIG.weights
weights ==
    [ semantic |-> 35, entity |-> 35, temporal |-> 15, category |-> 10, source |-> 5 ]

\* MATCH_CONFIG.thresholds as the module is loaded
DefaultThresholds ==
    [ exactMatch |-> 80, likelyMatch |-> 60, related |-> 40, minSemantic |-> 50 ]

maxCandidates == 20

\* a composite score reaches threshold t
Reaches(compositeScore, t) == compositeScore >= t * 100

\* what cosineSimilarity, calculateEntityScore, calculateTemporalScore,
\* calculateCategoryScore and calculateSourceScore return (a model of the
\* texts, the embeddings and the clock is not attempted: the results are
\* inputs)
SemanticChoices == {45, 50, 100}
EntityChoices == {0, 100}
TemporalChoices == {0, 100}
CategoryChoices == {50, 100}
SourceChoices == {0}

\* strings a provider returns as entities, and their toLowerCase()
ToLowerCase ==
    [ x \in {"Musk", "musk", "FBI", "fbi"} |->
        IF x \in {"Musk", "musk"} THEN "musk" ELSE "fbi" ]

\* the people arrays of a provider's answer that requests are made with
RawEntityChoices == { {}, {"Musk"}, {"musk", "FBI"} }

\* normalizeEntityArray: lower case, without duplicates (the names of the
\* model have no outer blanks and are not empty)
normalizeEntityArray(arr) == { ToLowerCase[x] : x \in arr }

\* url of a request: none, or one of two; its host name
Urls == {"", "https://bbc.com/a", "https://cnn.com/b"}

sourceDomainOf(url) ==
    IF url = "" THEN "user"
    ELSE IF url = "https://bbc.com/a" THEN "bbc.com" ELSE "cnn.com"

\* the matching columns of a Story row
NoStoryMatch ==
    [ embedding |-> FALSE, canonicalEventId |-> Null, url |-> "", entitiesPeople |-> {} ]

NoEvent ==
    [ exists |-> FALSE, entitiesPeople |-> {}, sourceDomains |-> {}, storyCount |-> 0 ]

\* a MatchCandidate (the fields the decision reads)
NoCandidate == [ storyId |-> Null, semanticScore |-> 0, compositeScore |-> 0 ]

NoMatchResult ==
    [ decision |-> "none", suggestedAction |-> "none", bestMatch |-> NoCandidate,
      candidates |-> << >> ]

SubmitProcs == {"s1"}

IdleS ==
    [ pc |-> "idle", userId |-> Null, url |-> "", forceNew |-> FALSE,
      embedding |-> FALSE, people |-> {}, approved |-> FALSE,
      activeStories |-> << >>, submissionEmbedding |-> FALSE,
      candidates |-> << >>, skipped |-> {}, matchResult |-> NoMatchResult,
      storyId |-> Null, reply |-> 0 ]

\* the stories a findMany with status in (active, pending) returns
ActiveStories == { s \in StoryIds : story[s].exists /\ AcceptsDiscoveries(s) }

\* ... orderBy createdAt desc: ids are given in creation order
RECURSIVE DescById(_)
DescById(S) ==
    IF S = {} THEN << >>
    ELSE LET m == CHOOSE x \in S : \A y \in S : y <= x
         IN  << [ id |-> m, embedding |-> storyMatch[m].embedding ] >> \o DescById(S \ {m})

\* POST /stories is received (the request is not a discovery of an existing story)
SubmitStart(p, u, url, forceNew) ==
    /\ sproc[p].pc = "idle"
    /\ Len(submissions) < MaxSubmissions
    /\ sproc' = [sproc EXCEPT ![p] =
          [ IdleS EXCEPT !.pc = "duplicate", !.userId = u, !.url = url,
                         !.forceNew = forceNew ]]
    /\ UNCHANGED << db, kproc, dproc, rproc, vproc, decay, jobs, pure,
                    MATCH_CONFIG, storyMatch, canonicalEvent, jproc, joined >>

\* checkDuplicateStory: a story with the same url, or (when an embedding is
\* obtained) a story within SIMILARITY_THRESHOLD, makes the reply 300
SubmitCheckDuplicate(p) ==
    /\ sproc[p].pc = "duplicate"
    /\ LET urlMatch == /\ sproc[p].url # ""
                       /\ \E s \in StoryIds :
                             story[s].exists /\ storyMatch[s].url = sproc[p].url
           similar == \E s \in ActiveStories : storyMatch[s].embedding
       IN  \E newEmbedding \in BOOLEAN, near \in BOOLEAN :
             LET isDuplicate == urlMatch \/ (newEmbedding /\ similar /\ near) IN
             sproc' = [sproc EXCEPT ![p] =
                IF isDuplicate THEN [ @ EXCEPT !.pc = "done", !.reply = 300 ]
                ELSE [ @ EXCEPT !.pc = "analyse" ]]
    /\ UNCHANGED << db, kproc, dproc, rproc, vproc, decay, jobs, pure,
                    MATCH_CONFIG, storyMatch, canonicalEvent, jproc, joined >>

\* generateEmbedding (null when the provider fails), extractEntities,
\* classifyStory
SubmitAnalyse(p) ==
    /\ sproc[p].pc = "analyse"
    /\ \E embedding \in BOOLEAN, raw \in RawEntityChoices, approved \in BOOLEAN :
          sproc' = [sproc EXCEPT ![p] =
             [ @ EXCEPT !.pc = IF sproc[p].forceNew THEN "create" ELSE "find",
                        !.embedding = embedding,
                        !.people = normalizeEntityArray(raw),
                        !.approved = approved ]]
    /\ UNCHANGED << db, kproc, dproc, rproc, vproc, decay, jobs, pure,
                    MATCH_CONFIG, storyMatch, canonicalEvent, jproc, joined >>

\* findMatchingMarkets: story.findMany
MatchFindStories(p) ==
    /\ sproc[p].pc = "find"
    /\ sproc' = [sproc EXCEPT ![p] =
          [ @ EXCEPT !.pc = IF sproc[p].embedding THEN "score" ELSE "embed",
                     !.activeStories = DescById(ActiveStories),
                     !.submissionEmbedding = sproc[p].embedding ]]
    /\ UNCHANGED << db, kproc, dproc, rproc, vproc, decay, jobs, pure,
                    MATCH_CONFIG, storyMatch, canonicalEvent, jproc, joined >>

\* findMatchingMarkets: submission.embedding || await generateEmbedding(...)
MatchEmbedding(p) ==
    /\ sproc[p].pc = "embed"
    /\ \E e \in BOOLEAN :
          sproc' = [sproc EXCEPT ![p] =
             [ @ EXCEPT !.pc = "score", !.submissionEmbedding = e ]]
    /\ UNCHANGED << db, kproc, dproc, rproc, vproc, decay, jobs, pure,
                    MATCH_CONFIG, storyMatch, canonicalEvent, jproc, joined >>

\* the semantic scores the loop can compute for a story
SemanticScores(submissionEmbedding, storyEmbedding) ==
    IF submissionEmbedding /\ storyEmbedding THEN SemanticChoices ELSE {0}

\* the test of the loop that skips a story
BelowMinSemantic_Never(semanticScore) == FALSE

BelowMinSemantic(semanticScore) ==
    semanticScore < MATCH_CONFIG.thresholds.minSemantic

CompositeScore(semanticScore, entityScore, temporalScore, categoryScore, sourceScore) ==
    semanticScore * weights.semantic
        + entityScore * weights.entity
        + temporalScore * weights.temporal
        + categoryScore * weights.category
        + sourceScore * weights.source

\* findMatchingMarkets: one pass of the loop over activeStories
MatchScore(p) ==
    /\ sproc[p].pc = "score"
    /\ sproc[p].activeStories # << >>
    /\ LET st == Head(sproc[p].activeStories) IN
       \E semanticScore \in SemanticScores(sproc[p].submissionEmbedding, st.embedding) :
          IF BelowMinSemantic(semanticScore)
          THEN sproc' = [sproc EXCEPT ![p] =
                  [ @ EXCEPT !.activeStories = Tail(sproc[p].activeStories),
                             !.skipped = sproc[p].skipped \cup
                                 { [ storyId |-> st.id, semanticScore |-> semanticScore ] } ]]
          ELSE \E entityScore \in EntityChoices, temporalScore \in TemporalChoices,
                  categoryScore \in CategoryChoices, sourceScore \in SourceChoices :
                  sproc' = [sproc EXCEPT ![p] =
                     [ @ EXCEPT !.activeStories = Tail(sproc[p].activeStories),
                                !.candidates = Append(sproc[p].candidates,
                                    [ storyId |-> st.id,
                                      semanticScore |-> semanticScore,
                                      compositeScore |->
                                          CompositeScore(semanticScore, entityScore,
                                              temporalScore, categoryScore, sourceScore) ]) ]]
    /\ UNCHANGED << db, kproc, dproc, rproc, vproc, decay, jobs, pure,
                    MATCH_CONFIG, storyMatch, canonicalEvent, jproc, joined >>

\* candidates.sort((a, b) => b.compositeScore - a.compositeScore): the sort
\* is stable, equal scores keep their order
RECURSIVE SortByComposite(_)
SortByComposite(q) ==
    IF q = << >> THEN << >>
    ELSE LET front == SortByComposite(SubSeq(q, 1, Len(q) - 1))
             c == q[Len(q)]
             k == Cardinality({ i \in DOMAIN front :
                                  front[i].compositeScore >= c.compositeScore })
         IN  SubSeq(front, 1, k) \o << c >> \o SubSeq(front, k + 1, Len(front))

\* .slice(0, n)
Slice(q, n) == SubSeq(q, 1, IF Len(q) < n THEN Len(q) ELSE n)

\* the loop that visits the stories oldest first
findMatchingMarkets_OldestFirst(found) ==
    LET oldestFirst == [ i \in DOMAIN found |-> found[Len(found) + 1 - i] ]
    IN  Slice(SortByComposite(oldestFirst), maxCandidates)

\* what findMatchingMarkets returns, from the candidates of its loop
findMatchingMarkets(found) == Slice(SortByComposite(found), maxCandidates)

\* .filter(c => c.compositeScore >= t)
RECURSIVE FilterReaching(_, _)
FilterReaching(q, t) ==
    IF q = << >> THEN << >>
    ELSE IF Reaches(Head(q).compositeScore, t)
         THEN << Head(q) >> \o FilterReaching(Tail(q), t)
         ELSE FilterReaching(Tail(q), t)

determineMatch_StrictThresholds(candidates) ==
    LET thresholds == MATCH_CONFIG.thresholds
        bestMatch == candidates[1]
    IN  IF candidates = << >>
        THEN [ decision |-> "no_match", suggestedAction |-> "create_new",
               bestMatch |-> NoCandidate, candidates |-> << >> ]
        ELSE IF bestMatch.compositeScore > thresholds.exactMatch * 100
        THEN [ decision |-> "exact_match", suggestedAction |-> "join_existing",
               bestMatch |-> bestMatch, candidates |-> candidates ]
        ELSE IF bestMatch.compositeScore > thresholds.likelyMatch * 100
        THEN [ decision |-> "likely_match", suggestedAction |-> "user_confirm",
               bestMatch |-> bestMatch, candidates |-> candidates ]
        ELSE IF bestMatch.compositeScore > thresholds.related * 100
        THEN [ decision |-> "related", suggestedAction |-> "create_new",
               bestMatch |-> bestMatch,
               candidates |-> FilterReaching(candidates, thresholds.related) ]
        ELSE [ decision |-> "no_match", suggestedAction |-> "create_new",
               bestMatch |-> NoCandidate, candidates |-> << >> ]

\* determineMatch, from what findMatchingMarkets returned
determineMatch(candidates) ==
    LET thresholds == MATCH_CONFIG.thresholds
        bestMatch == candidates[1]
    IN  IF candidates = << >>
        THEN [ decision |-> "no_match", suggestedAction |-> "create_new",
               bestMatch |-> NoCandidate, candidates |-> << >> ]
        ELSE IF Reaches(bestMatch.compositeScore, thresholds.exactMatch)
        THEN [ decision |-> "exact_match", suggestedAction |-> "join_existing",
               bestMatch |-> bestMatch, candidates |-> candidates ]
        ELSE IF Reaches(bestMatch.compositeScore, thresholds.likelyMatch)
        THEN [ decision |-> "likely_match", suggestedAction |-> "user_confirm",
               bestMatch |-> bestMatch, candidates |-> candidates ]
        ELSE IF Reaches(bestMatch.compositeScore, thresholds.related)
        THEN [ decision |-> "related", suggestedAction |-> "create_new",
               bestMatch |-> bestMatch,
               candidates |-> FilterReaching(candidates, thresholds.related) ]
        ELSE [ decision |-> "no_match", suggestedAction |-> "create_new",
               bestMatch |-> NoCandidate, candidates |-> << >> ]

\* the loop is over: findMatchingMarkets returns, determineMatch decides, and
\* the handler replies 300 to an exact or a likely match
MatchDecide(p) ==
    /\ sproc[p].pc = "score"
    /\ sproc[p].activeStories = << >>
    /\ LET returned == findMatchingMarkets(sproc[p].candidates)
           matchResult == determineMatch(returned)
           offer == /\ matchResult.decision \in {"exact_match", "likely_match"}
                    /\ matchResult.bestMatch # NoCandidate
       IN  sproc' = [sproc EXCEPT ![p] =
              [ @ EXCEPT !.pc = IF offer THEN "done" ELSE "create",
                         !.reply = IF offer THEN 300 ELSE 0,
                         !.candidates = returned,
                         !.matchResult = matchResult ]]
    /\ UNCHANGED << db, kproc, dproc, rproc, vproc, decay, jobs, pure,
                    MATCH_CONFIG, storyMatch, canonicalEvent, jproc, joined >>

\* `if (embedding)` of the create transaction: a canonical event is created
CreatesCanonicalEvent_Always(embedding) == TRUE

CreatesCanonicalEvent(embedding) == embedding

\* the least of a set of times
Earliest(T) == CHOOSE t \in T : \A x \in T : t <= x

\* the first unused id of a table
FirstFree(ids, used) == CHOOSE i \in ids \ used : \A j \in ids \ used : i <= j

EventsInUse == { e \in EventIds : canonicalEvent[e].exists }

StoriesInUse == { s \in StoryIds : story[s].exists }

\* the create transaction: canonicalEvent.create when there is an embedding,
\* story.create, submission.create; then deleteCache and the reply
SubmitCreate(p) ==
    /\ sproc[p].pc = "create"
    /\ StoriesInUse # StoryIds
    /\ CreatesCanonicalEvent(sproc[p].embedding) => EventsInUse # EventIds
    /\ Len(submissions) < MaxSubmissions
    /\ LET s == FirstFree(StoryIds, StoriesInUse)
           e == FirstFree(EventIds, EventsInUse)
           withEvent == CreatesCanonicalEvent(sproc[p].embedding)
       IN  /\ canonicalEvent' =
                 IF withEvent
                 THEN [canonicalEvent EXCEPT ![e] =
                         [ exists |-> TRUE,
                           entitiesPeople |-> sproc[p].people,
                           sourceDomains |-> { sourceDomainOf(sproc[p].url) },
                           storyCount |-> 1 ]]
                 ELSE canonicalEvent
           /\ story' = [story EXCEPT ![s] =
                 [ NoStory EXCEPT !.exists = TRUE,
                                  !.status = IF sproc[p].approved THEN "active"
                                             ELSE "pending" ]]
           /\ storyMatch' = [storyMatch EXCEPT ![s] =
                 [ embedding |-> sproc[p].embedding,
                   canonicalEventId |-> IF withEvent THEN e ELSE Null,
                   url |-> sproc[p].url,
                   entitiesPeople |-> sproc[p].people ]]
           /\ submissions' = Append(submissions,
                 NewSubmission(sproc[p].userId, s, Earliest(NowChoices), TRUE))
           /\ sproc' = [sproc EXCEPT ![p] =
                 [ @ EXCEPT !.pc = "done", !.reply = 200, !.storyId = s ]]
    /\ UNCHANGED << users, kudosHistory, viralitySnapshots,
                    kproc, dproc, rproc, vproc, decay, jobs, pure,
                    MATCH_CONFIG, jproc, joined >>

\* the reply is sent
SubmitReply(p) ==
    /\ sproc[p].pc = "done"
    /\ sproc' = [sproc EXCEPT ![p] = IdleS]
    /\ UNCHANGED << db, kproc, dproc, rproc, vproc, decay, jobs, pure,
                    MATCH_CONFIG, storyMatch, canonicalEvent, jproc, joined >>

---------------------------------------------------------------------------
(* findMatchingMarkets' ranking and determineMatch over candidate lists     *)
(* longer than maxCandidates.  The candidates stand in the order of the     *)
(* loop, which is findMany's createdAt desc: a larger storyId is a more     *)
(* recent story.                                                            *)

NoMatchCall ==
    [ called |-> FALSE, found |-> << >>, returned |-> << >>,
      matchResult |-> NoMatchResult ]

\* composite scores below related, between related and likelyMatch, between
\* likelyMatch and exactMatch, above exactMatch
CompositeChoices == << 3000, 5000, 7000, 9000 >>

\* the candidate lists of the loop: n stories, newest first, their composite
\* scores in a pattern of period 3
FoundLists ==
    { [ i \in 1 .. n |->
          [ storyId |-> n + 1 - i,
            semanticScore |-> 100,
            compositeScore |-> CompositeChoices[f[(i % 3) + 1]] ] ] :
        n \in 0 .. MaxFound, f \in [ 1 .. 3 -> DOMAIN CompositeChoices ] }

\* determineMatch(submission) over the candidates `found` of the loop
MatchCallReturns ==
    /\ ~ matchCall.called
    /\ LET returned == findMatchingMarkets(matchCall.found) IN
       matchCall' = [ matchCall EXCEPT !.called = TRUE,
                                      !.returned = returned,
                                      !.matchResult = determineMatch(returned) ]
    /\ UNCHANGED << db, kproc, dproc, rproc, vproc, decay, jobs, matching, settleLoop >>

---------------------------------------------------------------------------
(* Joining an existing market: POST /stories with joinMarketId, and         *)
(* joinExistingMarket.  A market is identified with its story; its pool,    *)
(* the positions and the balances are outside the model.                    *)

JoinProcs == {"j1", "j2"}

IdleJ ==
    [ pc |-> "idle", userId |-> Null, marketId |-> Null, url |-> "",
      people |-> {}, canonicalEventId |-> Null, reply |-> 0 ]

\* String.prototype.toLowerCase
toLowerCase(x) == IF x \in DOMAIN ToLowerCase THEN ToLowerCase[x] ELSE x

\* mergeEntityArrays: the stored array, then the new entries in lower case,
\* through a Set
mergeEntityArrays(existing, newEntities) ==
    existing \cup { toLowerCase(e) : e \in newEntities }

RoomForJoin ==
    Len(joined)
        + Cardinality({ j \in JoinProcs : jproc[j].pc \notin {"idle", "done"} })
            < MaxJoined

\* POST /stories with joinMarketId is received (the schema requires a url)
JoinStart(j, u, m, url) ==
    /\ jproc[j].pc = "idle"
    /\ RoomForJoin
    /\ url # ""
    /\ jproc' = [jproc EXCEPT ![j] =
          [ IdleJ EXCEPT !.pc = "duplicate", !.userId = u, !.marketId = m, !.url = url ]]
    /\ UNCHANGED << db, kproc, dproc, rproc, vproc, decay, jobs, pure,
                    MATCH_CONFIG, storyMatch, canonicalEvent, sproc, joined >>

\* checkDuplicateStory (409 when a story has the url or is within
\* SIMILARITY_THRESHOLD), then generateEmbedding, extractEntities and
\* classifyStory
JoinCheckDuplicate(j) ==
    /\ jproc[j].pc = "duplicate"
    /\ LET urlMatch == \/ \E s \in StoryIds :
                             story[s].exists /\ storyMatch[s].url = jproc[j].url
                       \/ \E i \in DOMAIN joined : joined[i].url = jproc[j].url
           similar == \E s \in ActiveStories : storyMatch[s].embedding
       IN  \E newEmbedding \in BOOLEAN, near \in BOOLEAN, raw \in RawEntityChoices :
             LET isDuplicate == urlMatch \/ (newEmbedding /\ similar /\ near) IN
             jproc' = [jproc EXCEPT ![j] =
                IF isDuplicate THEN [ @ EXCEPT !.pc = "done", !.reply = 409 ]
                ELSE [ @ EXCEPT !.pc = "market",
                                !.people = normalizeEntityArray(raw) ]]
    /\ UNCHANGED << db, kproc, dproc, rproc, vproc, decay, jobs, pure,
                    MATCH_CONFIG, storyMatch, canonicalEvent, sproc, joined >>

\* joinExistingMarket: market.findUnique with its story (404, 400, or go
\* on), and position.findFirst
JoinReadMarket(j) ==
    /\ jproc[j].pc = "market"
    /\ LET m == jproc[j].marketId IN
       jproc' = [jproc EXCEPT ![j] =
          IF ~ story[m].exists \/ story[m].market = "none"
          THEN [ @ EXCEPT !.pc = "done", !.reply = 404 ]
          ELSE IF story[m].market # "open"
          THEN [ @ EXCEPT !.pc = "done", !.reply = 400 ]
          ELSE [ @ EXCEPT !.pc = "txn",
                          !.canonicalEventId = storyMatch[m].canonicalEventId ]]
    /\ UNCHANGED << db, kproc, dproc, rproc, vproc, decay, jobs, pure,
                    MATCH_CONFIG, storyMatch, canonicalEvent, sproc, joined >>

\* the canonical event after the merge of a joining story
MergedEvent(event, people, sourceDomain) ==
    [ event EXCEPT
        !.entitiesPeople = mergeEntityArrays(event.entitiesPeople, people),
        !.sourceDomains = mergeEntityArrays(event.sourceDomains, { sourceDomain }),
        !.storyCount = event.storyCount + 1 ]

\* the transaction of joinExistingMarket: story.create of the joining story,
\* and the merge into the canonical event of the market's story when there is
\* one; then deleteCache and the reply
JoinTxn(j) ==
    /\ jproc[j].pc = "txn"
    /\ LET e == jproc[j].canonicalEventId IN
       /\ joined' = Append(joined,
             [ userId |-> jproc[j].userId, url |-> jproc[j].url,
               people |-> jproc[j].people,
               canonicalEventId |-> e, matchedToMarketId |-> jproc[j].marketId ])
       /\ canonicalEvent' =
             IF e # Null /\ canonicalEvent[e].exists
             THEN [canonicalEvent EXCEPT ![e] =
                     MergedEvent(canonicalEvent[e], jproc[j].people,
                                 sourceDomainOf(jproc[j].url))]
             ELSE canonicalEvent
    /\ jproc' = [jproc EXCEPT ![j] = [ @ EXCEPT !.pc = "done", !.reply = 200 ]]
    /\ UNCHANGED << db, kproc, dproc, rproc, vproc, decay, jobs, pure,
                    MATCH_CONFIG, storyMatch, sproc >>

\* the reply is sent
JoinReply(j) ==
    /\ jproc[j].pc = "done"
    /\ jproc' = [jproc EXCEPT ![j] = IdleJ]
    /\ UNCHANGED << db, kproc, dproc, rproc, vproc, decay, jobs, pure,
                    MATCH_CONFIG, storyMatch, canonicalEvent, sproc, joined >>

---------------------------------------------------------------------------
(* getMatchConfig / updateMatchThresholds *)

\* Object.assign(target, source)
ObjectAssign(target, source) ==
    [ k \in DOMAIN target |-> IF k \in DOMAIN source THEN source[k] ELSE target[k] ]

\* the partial threshold objects updateMatchThresholds is called with
ThresholdUpdates ==
    { ("likelyMatch" :> 70), ("exactMatch" :> 50), ("related" :> 150) }

updateMatchThresholds(thresholds) ==
    /\ MATCH_CONFIG' =
          [ MATCH_CONFIG EXCEPT !.thresholds = ObjectAssign(@, thresholds) ]
    /\ UNCHANGED << db, kproc, dproc, rproc, vproc, decay, jobs, pure,
                    storyMatch, canonicalEvent, sproc, jproc, joined >>

---------------------------------------------------------------------------
(* Store failures: a prisma call rejects, and the rejection travels up to   *)
(* the nearest catch.                                                       *)

\* calculateKudos rejected with `error`: runKudosCheck catches it inside its
\* loop, logs it with the story's id and goes on; manualKudosDistribution
\* and a direct caller get the rejection
Thrown(p, error) ==
    kproc' = [kproc EXCEPT ![p] =
        [ IdleK EXCEPT
            !.pc = IF p = "sched" THEN "loop" ELSE "done",
            !.todo = kproc[p].todo,
            !.storyId = kproc[p].storyId,
            !.msg = error ]]

\* runKudosCheck: isViralityDecaying rejects in a turn of the loop; the call
\* is outside the inner try, so control leaves the loop for the outer catch
SweepDecayThrows(p) ==
    /\ kproc[p].pc = "loop"
    /\ \E s \in kproc[p].todo :
          kproc' = [kproc EXCEPT ![p] =
              [ IdleK EXCEPT !.pc = "caught", !.todo = kproc[p].todo \ {s} ]]
    /\ UNCHANGED << db, dproc, rproc, vproc, decay, aux >>

\* runKudosCheck: the outer catch logs "Kudos check failed" and the tick ends
SweepCaught(p) ==
    /\ kproc[p].pc = "caught"
    /\ kproc' = [kproc EXCEPT ![p] = IdleK]
    /\ UNCHANGED << db, dproc, rproc, vproc, decay, aux >>

\* the transaction that persists what it wrote before the failing step
CalcTxnThrows_NoRollback(p) ==
    /\ kproc[p].pc = "txn"
    /\ submissions' = [submissions EXCEPT ![kproc[p].subs[1]] =
          [ @ EXCEPT !.kudosEarned = KudosAt(kproc[p].subs, kproc[p].peak, 1) ]]
    /\ Thrown(p, "transaction failed")
    /\ UNCHANGED << story, users, kudosHistory, viralitySnapshots,
                    dproc, rproc, vproc, decay, aux >>

\* calculateKudos: a step of the prisma.$transaction rejects; the store rolls
\* the transaction back and calculateKudos rejects
CalcTxnThrows(p) ==
    /\ kproc[p].pc = "txn"
    /\ Thrown(p, "transaction failed")
    /\ UNCHANGED << db, dproc, rproc, vproc, decay, aux >>

\* calculateKudos: the findUnique before the transaction, or a call of
\* updateLeaderboards after it, rejects (the rank writes already made stay)
CalcThrows(p) ==
    /\ kproc[p].pc \in {"calc", "lbw_read", "lbw_write", "lba_read", "lba_write"}
    /\ Thrown(p, "threw")
    /\ UNCHANGED << db, dproc, rproc, vproc, decay, aux >>

\* updateAllActiveVirality: updateStoryVirality rejects at one of its store
\* calls; the catch of the loop counts the error and the loop goes on
UpdateThrows(v) ==
    /\ v = "tick"
    /\ vproc[v].pc \in {"read", "prev", "snap", "update"}
    /\ vproc' = [vproc EXCEPT ![v] =
          [ IdleV EXCEPT !.pc = "loop", !.todo = vproc[v].todo, !.trend = "error" ]]
    /\ UNCHANGED << db, kproc, dproc, rproc, decay, aux >>

---------------------------------------------------------------------------
(* Initial states *)

\* the snapshots that updates computing `scores`, one after the other, leave
SnapshotsFrom(scores) ==
    [ i \in 1 .. Len(scores) |->
        LET v == VelocityChange(IF i = 1 THEN Null ELSE scores[i - 1], scores[i])
        IN  Snapshot(scores[i], v, determineTrend(v)) ]

RECURSIVE PeakAfter(_)
PeakAfter(scores) ==
    IF scores = << >> THEN Null
    ELSE NewPeak(PeakAfter(SubSeq(scores, 1, Len(scores) - 1)), scores[Len(scores)])

\* a story row as prisma/seed.ts creates it (active, with an open market, no
\* submission), after updates computing `scores`
SeededStory(status, scores) ==
    [ NoStory EXCEPT
        !.exists = TRUE, !.status = status, !.market = "open",
        !.currentViralityScore = IF scores = << >> THEN Null ELSE scores[Len(scores)],
        !.peakViralityScore = PeakAfter(scores),
        !.viralityTrend = IF scores = << >> THEN "none"
                          ELSE SnapshotsFrom(scores)[Len(scores)].trend ]

EmptyBag == [ e \in {} |-> 0 ]

NoDecay == [ isDecaying |-> FALSE, reason |-> "unchecked" ]

\* story 1 exists, with the given status and virality history; nothing else does
InitStore(status, scores) ==
    /\ story = [ s \in StoryIds |-> IF s = 1 THEN SeededStory(status, scores) ELSE NoStory ]
    /\ viralitySnapshots = [ s \in StoryIds |-> IF s = 1 THEN SnapshotsFrom(scores) ELSE << >> ]
    /\ submissions = << >>
    /\ users = [ u \in UserIds |-> NewUser ]
    /\ kudosHistory = EmptyBag

\* no exported job function has been called
NoCall == [ fn |-> "none", returned |-> TRUE, wasRunning |-> FALSE ]

\* the module state of the two jobs before any start: no timer
InitJobs ==
    /\ checkIntervalId = Null
    /\ resetIntervalId = Null
    /\ intervalId = Null
    /\ timers = {}
    /\ viralityRuns = 0
    /\ jobCall = NoCall
    /\ process = "up"

\* the matcher's configuration as loaded, no canonical event, no request
InitMatching ==
    /\ MATCH_CONFIG = [ thresholds |-> DefaultThresholds ]
    /\ storyMatch = [ s \in StoryIds |-> NoStoryMatch ]
    /\ canonicalEvent = [ e \in EventIds |-> NoEvent ]
    /\ sproc = [ p \in SubmitProcs |-> IdleS ]
    /\ jproc = [ j \in JoinProcs |-> IdleJ ]
    /\ joined = << >>

InitProcs ==
    /\ kproc = [ p \in SettleProcs |-> IdleK ]
    /\ dproc = [ d \in DiscProcs |-> IdleD ]
    /\ rproc = IdleR
    /\ vproc = [ v \in VirProcs |-> IdleV ]
    /\ decay = [ s \in StoryIds |-> NoDecay ]
    /\ InitJobs
    /\ settleLoop = NoLoop
    /\ matchCall = NoMatchCall
    /\ InitMatching

\* virality histories of the settlement model: a peak of 80 in sustained
\* decline, a peak of 30 in sustained decline, one snapshot only
SettleHistories ==
    { << 800, 740, 680, 620 >>, << 300, 240, 180, 120 >>, << 800 >> }

Init ==
    /\ \E status \in {"active", "pending"}, scores \in SettleHistories :
          InitStore(status, scores)
    /\ InitProcs

---------------------------------------------------------------------------
(* Spec: settlement attempts of the scheduler and of an administrator,     *)
(* with discover requests and the weekly reset                             *)

CalcSteps(p) ==
    \/ CalcRead(p)
    \/ CalcTxn(p)
    \/ LbWeeklyRead(p)
    \/ LbWeeklyWrite(p)
    \/ LbAllTimeRead(p)
    \/ LbAllTimeWrite(p)
    \/ CalcReturn(p)

DiscoverSteps(d) ==
    \/ \E u \in UserIds, s \in StoryIds, route \in Routes : DiscoverStart(d, u, s, route)
    \/ DiscoverReadStory(d)
    \/ DiscoverFindExisting(d)
    \/ DiscoverCount(d)
    \/ DiscoverCreate(d)
    \/ DiscoverReply(d)

Next ==
    \/ SweepStart("sched")
    \/ SweepNext("sched")
    \/ SweepDone("sched")
    \/ \E s \in StoryIds : ManualStart("admin", s)
    \/ Answered("admin")
    \/ \E p \in {"sched", "admin"} : CalcSteps(p)
    \/ DiscoverSteps("d1")

Spec == Init /\ [][Next]_vars

---------------------------------------------------------------------------
(* SpecReset: the weekly reset against the scheduler's sweep and discover  *)
(* requests                                                                *)

NextReset ==
    \/ SweepStart("sched")
    \/ SweepNext("sched")
    \/ SweepDone("sched")
    \/ CalcSteps("sched")
    \/ DiscoverSteps("d1")
    \/ ResetRead
    \/ ResetTxn
    \/ ResetReturn

SpecReset == Init /\ [][NextReset]_vars

---------------------------------------------------------------------------
(* SpecCalc: calculateKudos called on any story id, settled or not, with   *)
(* or without submissions, existing or not                                 *)

NextCalc ==
    \/ \E s \in StoryIds : DirectCall("direct", s)
    \/ CalcSteps("direct")
    \/ Answered("direct")
    \/ DiscoverSteps("d1")

SpecCalc == Init /\ [][NextCalc]_vars

---------------------------------------------------------------------------
(* SpecDiscover: two discover requests at a time, and story creation       *)

InitDiscover ==
    /\ \E status \in {"active", "pending"} : InitStore(status, << >>)
    /\ InitProcs

NextDiscover ==
    \/ \E d \in DiscProcs : DiscoverSteps(d)
    \/ \E u \in UserIds, approved \in BOOLEAN : CreateStory(u, approved)

SpecDiscover == InitDiscover /\ [][NextDiscover]_vars

---------------------------------------------------------------------------
(* SpecVirality: the tracker's tick and an administrator's refresh         *)

InitVirality ==
    /\ InitStore("active", << >>)
    /\ InitProcs

UpdateSteps(v) ==
    \/ UpdateRead(v)
    \/ UpdatePrev(v)
    \/ UpdateSnapshot(v)
    \/ UpdateStory(v)

NextVirality ==
    \/ TickStart("tick")
    \/ TickNext("tick")
    \/ TickDone("tick")
    \/ \E s \in StoryIds : RefreshStart("refresh", s)
    \/ \E v \in VirProcs : UpdateSteps(v)

SpecVirality == InitVirality /\ [][NextVirality]_vars

---------------------------------------------------------------------------
(* SpecDecay: isViralityDecaying on a story after any sequence of up to    *)
(* MaxSnapshots updates                                                    *)

\* the scores of the decay check: ScoreChoices and the pair 55.5, 33.3
DecayScores == ScoreChoices \cup {555, 333}

InitDecay ==
    /\ \E n \in 0 .. MaxSnapshots : \E scores \in [1 .. n -> DecayScores] :
          InitStore("active", scores)
    /\ InitProcs

NextDecay == \E s \in StoryIds : DecayCheck(s)

SpecDecay == InitDecay /\ [][NextDecay]_vars


---------------------------------------------------------------------------
(* SpecSweep: the scheduler's sweep over a story created by POST /stories  *)
(* (so with its original submission), after any sequence of up to          *)
(* MaxSnapshots virality updates                                           *)

InitSweep ==
    /\ \E n \in 0 .. MaxSnapshots : \E scores \in [1 .. n -> ScoreChoices] :
          /\ story = [ s \in StoryIds |->
                         IF s = 1 THEN SeededStory("active", scores) ELSE NoStory ]
          /\ viralitySnapshots = [ s \in StoryIds |->
                         IF s = 1 THEN SnapshotsFrom(scores) ELSE << >> ]
    /\ submissions = << NewSubmission(1, 1, 0, TRUE) >>
    /\ users = [ u \in UserIds |-> NewUser ]
    /\ kudosHistory = EmptyBag
    /\ InitProcs

NextSweep ==
    \/ SweepStart("sched")
    \/ SweepNext("sched")
    \/ SweepDone("sched")
    \/ CalcSteps("sched")
    \/ \E s \in StoryIds : DecayCheck(s)

SpecSweep == InitSweep /\ [][NextSweep]_vars

---------------------------------------------------------------------------
(* SpecJobs: the two background jobs started, stopped and shut down, with  *)
(* the sweeps and resets their timers start, over a story created with its *)
(* original submission                                                     *)

InitJobsStore ==
    /\ \E scores \in SettleHistories :
          /\ story = [ s \in StoryIds |->
                         IF s = 1 THEN SeededStory("active", scores) ELSE NoStory ]
          /\ viralitySnapshots = [ s \in StoryIds |->
                         IF s = 1 THEN SnapshotsFrom(scores) ELSE << >> ]
    /\ submissions = << NewSubmission(1, 1, 0, TRUE) >>
    /\ users = [ u \in UserIds |-> NewUser ]
    /\ kudosHistory = EmptyBag
    /\ InitProcs

\* the event loop runs callbacks until the process has exited
Alive == process # "exited"

NextJobs ==
    \/ \E f \in JobFunctions : CallJob(f)
    \/ startKudosCalculator
    \/ stopKudosCalculator
    \/ startViralityTracker
    \/ stopViralityTracker
    \/ ViralityTimerFires
    \/ ViralityRunEnds
    \/ Shutdown
    \/ ProcessExit
    \/ Alive /\ TimerActive("runKudosCheck") /\ SweepStart("sched")
    \/ Alive /\ SweepNext("sched")
    \/ Alive /\ SweepDone("sched")
    \/ Alive /\ CalcRead("sched")
    \/ Alive /\ CalcTxn("sched")
    \/ Alive /\ LbWeeklyRead("sched")
    \/ Alive /\ LbWeeklyWrite("sched")
    \/ Alive /\ LbAllTimeRead("sched")
    \/ Alive /\ LbAllTimeWrite("sched")
    \/ Alive /\ CalcReturn("sched")
    \/ Alive /\ TimerActive("checkWeeklyReset") /\ ResetRead
    \/ Alive /\ ResetTxn
    \/ Alive /\ ResetReturn

SpecJobs == InitJobsStore /\ [][NextJobs]_vars

---------------------------------------------------------------------------
(* SpecRanks: updateLeaderboards called by the administrator's             *)
(* recalculation and by the scheduler's settlements, with the weekly       *)
(* reset, over a story with two discoverers                                *)

InitRanks ==
    /\ \E scores \in SettleHistories :
          /\ story = [ s \in StoryIds |->
                         IF s = 1 THEN SeededStory("active", scores) ELSE NoStory ]
          /\ viralitySnapshots = [ s \in StoryIds |->
                         IF s = 1 THEN SnapshotsFrom(scores) ELSE << >> ]
    /\ \E g \in Gaps :
          submissions = << NewSubmission(1, 1, 0, TRUE), NewSubmission(2, 1, g, FALSE) >>
    /\ users = [ u \in UserIds |-> NewUser ]
    /\ kudosHistory = EmptyBag
    /\ InitProcs

LeaderboardSteps(p) ==
    \/ LbWeeklyRead(p)
    \/ LbWeeklyWrite(p)
    \/ LbAllTimeRead(p)
    \/ LbAllTimeWrite(p)

NextRanks ==
    \/ RecalcStart("recalc")
    \/ LeaderboardSteps("recalc")
    \/ RecalcReturn("recalc")
    \/ SweepStart("sched")
    \/ SweepNext("sched")
    \/ SweepDone("sched")
    \/ CalcSteps("sched")
    \/ ResetRead
    \/ ResetTxn
    \/ ResetReturn

SpecRanks == InitRanks /\ [][NextRanks]_vars

---------------------------------------------------------------------------
(* SpecMatch: POST /stories with the matcher, over one or two stories that *)
(* earlier requests created                                                *)

\* n stories, each as the create transaction leaves it: active, with its
\* original submission, and with a canonical event when it got an embedding
InitMatchStore(n, emb) ==
    /\ story = [ s \in StoryIds |->
          IF s <= n THEN [ NoStory EXCEPT !.exists = TRUE, !.status = "active" ]
          ELSE NoStory ]
    /\ storyMatch = [ s \in StoryIds |->
          IF s <= n
          THEN [ embedding |-> emb[s],
                 canonicalEventId |-> IF emb[s] THEN s ELSE Null,
                 url |-> IF s = 1 THEN "https://bbc.com/a" ELSE "",
                 entitiesPeople |-> {"musk"} ]
          ELSE NoStoryMatch ]
    /\ canonicalEvent = [ e \in EventIds |->
          IF e <= n /\ emb[e]
          THEN [ exists |-> TRUE, entitiesPeople |-> {"musk"},
                 sourceDomains |-> { IF e = 1 THEN "bbc.com" ELSE "user" },
                 storyCount |-> 1 ]
          ELSE NoEvent ]
    /\ submissions = [ i \in 1 .. n |-> NewSubmission(1, i, i - 1, TRUE) ]
    /\ users = [ u \in UserIds |-> NewUser ]
    /\ kudosHistory = EmptyBag
    /\ viralitySnapshots = [ s \in StoryIds |-> << >> ]

InitMatch ==
    /\ \E n \in 1 .. MaxStories, emb \in [ StoryIds -> BOOLEAN ] : InitMatchStore(n, emb)
    /\ kproc = [ p \in SettleProcs |-> IdleK ]
    /\ dproc = [ d \in DiscProcs |-> IdleD ]
    /\ rproc = IdleR
    /\ vproc = [ v \in VirProcs |-> IdleV ]
    /\ decay = [ s \in StoryIds |-> NoDecay ]
    /\ InitJobs
    /\ settleLoop = NoLoop
    /\ matchCall = NoMatchCall
    /\ MATCH_CONFIG = [ thresholds |-> DefaultThresholds ]
    /\ sproc = [ p \in SubmitProcs |-> IdleS ]
    /\ jproc = [ j \in JoinProcs |-> IdleJ ]
    /\ joined = << >>

SubmitSteps(p) ==
    \/ \E u \in UserIds, url \in Urls, forceNew \in BOOLEAN : SubmitStart(p, u, url, forceNew)
    \/ SubmitCheckDuplicate(p)
    \/ SubmitAnalyse(p)
    \/ MatchFindStories(p)
    \/ MatchEmbedding(p)
    \/ MatchScore(p)
    \/ MatchDecide(p)
    \/ SubmitCreate(p)
    \/ SubmitReply(p)

NextMatch == SubmitSteps("s1")

SpecMatch == InitMatch /\ [][NextMatch]_vars

---------------------------------------------------------------------------
(* SpecConfig: the same over one story with an embedding, with calls of    *)
(* updateMatchThresholds                                                   *)

InitConfig ==
    /\ InitMatchStore(1, [ s \in StoryIds |-> TRUE ])
    /\ kproc = [ p \in SettleProcs |-> IdleK ]
    /\ dproc = [ d \in DiscProcs |-> IdleD ]
    /\ rproc = IdleR
    /\ vproc = [ v \in VirProcs |-> IdleV ]
    /\ decay = [ s \in StoryIds |-> NoDecay ]
    /\ InitJobs
    /\ settleLoop = NoLoop
    /\ matchCall = NoMatchCall
    /\ MATCH_CONFIG = [ thresholds |-> DefaultThresholds ]
    /\ sproc = [ p \in SubmitProcs |-> IdleS ]
    /\ jproc = [ j \in JoinProcs |-> IdleJ ]
    /\ joined = << >>

\* requests of user 2, without url, that do not force a new story
NextConfig ==
    \/ SubmitStart("s1", 2, "", FALSE)
    \/ SubmitCheckDuplicate("s1")
    \/ SubmitAnalyse("s1")
    \/ MatchFindStories("s1")
    \/ MatchEmbedding("s1")
    \/ MatchScore("s1")
    \/ MatchDecide("s1")
    \/ SubmitCreate("s1")
    \/ SubmitReply("s1")
    \/ \E thresholds \in ThresholdUpdates : updateMatchThresholds(thresholds)

SpecConfig == InitConfig /\ [][NextConfig]_vars

---------------------------------------------------------------------------
(* SpecEvents: a story with a canonical event and an open market; users    *)
(* join it through joinExistingMarket and through the discover routes      *)

InitEvents ==
    /\ story = [ s \in StoryIds |->
          IF s = 1 THEN [ NoStory EXCEPT !.exists = TRUE, !.status = "active",
                                         !.market = "open" ]
          ELSE NoStory ]
    /\ \E raw \in RawEntityChoices :
          /\ storyMatch = [ s \in StoryIds |->
                IF s = 1 THEN [ embedding |-> TRUE, canonicalEventId |-> 1,
                                url |-> "https://bbc.com/a",
                                entitiesPeople |-> normalizeEntityArray(raw) ]
                ELSE NoStoryMatch ]
          /\ canonicalEvent = [ e \in EventIds |->
                IF e = 1 THEN [ exists |-> TRUE,
                                entitiesPeople |-> normalizeEntityArray(raw),
                                sourceDomains |-> {"bbc.com"}, storyCount |-> 1 ]
                ELSE NoEvent ]
    /\ submissions = << NewSubmission(1, 1, 0, TRUE) >>
    /\ users = [ u \in UserIds |-> NewUser ]
    /\ kudosHistory = EmptyBag
    /\ viralitySnapshots = [ s \in StoryIds |-> << >> ]
    /\ kproc = [ p \in SettleProcs |-> IdleK ]
    /\ dproc = [ d \in DiscProcs |-> IdleD ]
    /\ rproc = IdleR
    /\ vproc = [ v \in VirProcs |-> IdleV ]
    /\ decay = [ s \in StoryIds |-> NoDecay ]
    /\ InitJobs
    /\ settleLoop = NoLoop
    /\ matchCall = NoMatchCall
    /\ MATCH_CONFIG = [ thresholds |-> DefaultThresholds ]
    /\ sproc = [ p \in SubmitProcs |-> IdleS ]
    /\ jproc = [ j \in JoinProcs |-> IdleJ ]
    /\ joined = << >>

JoinSteps(j) ==
    \/ \E u \in UserIds, m \in StoryIds, url \in Urls : JoinStart(j, u, m, url)
    \/ JoinCheckDuplicate(j)
    \/ JoinReadMarket(j)
    \/ JoinTxn(j)
    \/ JoinReply(j)

NextEvents ==
    \/ JoinSteps("j1")
    \/ DiscoverSteps("d1")

SpecEvents == InitEvents /\ [][NextEvents]_vars

---------------------------------------------------------------------------
(* SpecJoin: two requests to join the market of the story *)

NextJoin == \E j \in JoinProcs : JoinSteps(j)

SpecJoin == InitEvents /\ [][NextJoin]_vars

---------------------------------------------------------------------------
(* The settlement loop alone, over lists of up to MaxOrder submissions *)

InitBonus ==
    /\ InitStore("active", << >>)
    /\ kproc = [ p \in SettleProcs |-> IdleK ]
    /\ dproc = [ d \in DiscProcs |-> IdleD ]
    /\ rproc = IdleR
    /\ vproc = [ v \in VirProcs |-> IdleV ]
    /\ decay = [ s \in StoryIds |-> NoDecay ]
    /\ InitJobs
    /\ InitMatching
    /\ \E q \in SortedLists : settleLoop = [ NoLoop EXCEPT !.submittedAt = q ]
    /\ matchCall = NoMatchCall

NextBonus == SettleLoopTurn

SpecBonus == InitBonus /\ [][NextBonus]_vars

---------------------------------------------------------------------------
(* The matcher's ranking alone, over lists of up to MaxFound candidates *)

InitTop ==
    /\ InitStore("active", << >>)
    /\ kproc = [ p \in SettleProcs |-> IdleK ]
    /\ dproc = [ d \in DiscProcs |-> IdleD ]
    /\ rproc = IdleR
    /\ vproc = [ v \in VirProcs |-> IdleV ]
    /\ decay = [ s \in StoryIds |-> NoDecay ]
    /\ InitJobs
    /\ InitMatching
    /\ settleLoop = NoLoop
    /\ \E q \in FoundLists : matchCall = [ NoMatchCall EXCEPT !.found = q ]

NextTop == MatchCallReturns

SpecTop == InitTop /\ [][NextTop]_vars

---------------------------------------------------------------------------
(* SpecRecompute: the scheduler's sweep settles two decaying stories, one   *)
(* after the other, while an administrator recalculates the leaderboards    *)

InitRecompute ==
    /\ story = [ s \in StoryIds |-> SeededStory("active", << 800, 740, 680, 620 >>) ]
    /\ viralitySnapshots = [ s \in StoryIds |-> SnapshotsFrom(<< 800, 740, 680, 620 >>) ]
    /\ \E g \in Gaps :
          submissions = << NewSubmission(1, 1, 0, TRUE), NewSubmission(2, 1, g, FALSE),
                           NewSubmission(2, 2, g, TRUE) >>
    /\ users = [ u \in UserIds |-> NewUser ]
    /\ kudosHistory = EmptyBag
    /\ InitProcs

NextRecompute ==
    \/ RecalcStart("recalc")
    \/ LeaderboardSteps("recalc")
    \/ RecalcReturn("recalc")
    \/ SweepStart("sched")
    \/ SweepNext("sched")
    \/ SweepDone("sched")
    \/ CalcSteps("sched")

SpecRecompute == InitRecompute /\ [][NextRecompute]_vars

---------------------------------------------------------------------------
(* SpecLive: the check timer keeps firing and no store call fails; the      *)
(* sweeps run over two active stories, decaying or not, while users         *)
(* discover them                                                            *)

\* decaying (a lasting drop from 80 to 30), or too young to tell
LiveHistories == { << 800, 300, 300 >>, << 800 >> }

InitLive ==
    /\ \E h \in [ StoryIds -> LiveHistories ] :
          /\ story = [ s \in StoryIds |-> SeededStory("active", h[s]) ]
          /\ viralitySnapshots = [ s \in StoryIds |-> SnapshotsFrom(h[s]) ]
    /\ submissions = [ i \in StoryIds |-> NewSubmission(1, i, i - 1, TRUE) ]
    /\ users = [ u \in UserIds |-> NewUser ]
    /\ kudosHistory = EmptyBag
    /\ InitProcs

\* the steps of the check timer's callback
SchedSteps ==
    \/ SweepStart("sched")
    \/ SweepNext("sched")
    \/ SweepDone("sched")
    \/ CalcSteps("sched")

NextLive ==
    \/ SchedSteps
    \/ DiscoverSteps("d1")

\* the timer fires again and again, and every store call of the sweep returns
SpecLive == InitLive /\ [][NextLive]_vars /\ WF_vars(SchedSteps)

---------------------------------------------------------------------------
(* SpecFaults: the scheduler's sweep and the tracker's batch over two       *)
(* active stories, with store calls that may reject                         *)

\* a peak of 80 and a drop to 30 that lasts: decaying, with room for one more
\* snapshot
FaultHistories == { << 800, 300, 300 >> }

InitFaults ==
    /\ \E h \in [ StoryIds -> FaultHistories ] :
          /\ story = [ s \in StoryIds |-> SeededStory("active", h[s]) ]
          /\ viralitySnapshots = [ s \in StoryIds |-> SnapshotsFrom(h[s]) ]
    /\ submissions = [ i \in StoryIds |-> NewSubmission(1, i, i - 1, TRUE) ]
    /\ users = [ u \in UserIds |-> NewUser ]
    /\ kudosHistory = EmptyBag
    /\ InitProcs

NextFaults ==
    \/ SweepStart("sched")
    \/ SweepNext("sched")
    \/ SweepDone("sched")
    \/ SweepDecayThrows("sched")
    \/ SweepCaught("sched")
    \/ CalcSteps("sched")
    \/ CalcThrows("sched")
    \/ CalcTxnThrows("sched")
    \/ TickStart("tick")
    \/ TickNext("tick")
    \/ TickDone("tick")
    \/ UpdateSteps("tick")
    \/ UpdateThrows("tick")

SpecFaults == InitFaults /\ [][NextFaults]_vars

---------------------------------------------------------------------------
(* Properties *)

\* the ids of the submissions of user u
SubsOfUser(u) == { i \in DOMAIN submissions : submissions[i].userId = u }

KudosEarnedOf == [ i \in DOMAIN submissions |-> submissions[i].kudosEarned ]

\* the number of early_discovery / first_discoverer rows of user u on story s
DiscoveryRows(u, s) ==
    LET rows == { e \in DOMAIN kudosHistory :
                    /\ e.userId = u
                    /\ e.storyId = s
                    /\ e.reason \in {"early_discovery", "first_discoverer"} }
    IN  SumOver(rows, [ e \in rows |-> kudosHistory[e] ])

\* the sum of the amounts of the KudosHistory rows of user u
LedgerSum(u) ==
    LET rows == { e \in DOMAIN kudosHistory : e.userId = u }
    IN  SumOver(rows, [ e \in rows |-> e.amount * kudosHistory[e] ])

\* C1: whatever the interleaving of the scheduler's sweep and the
\* administrator's manual distribution on a story, kudos are credited once:
\* every user's totalKudos and weeklyKudos are the sum of the kudosEarned of
\* their submissions, and every credited submission has exactly one
\* early_discovery / first_discoverer row (an uncredited one has none).
C1_CreditedOnce ==
    /\ \A u \in UserIds :
          /\ users[u].totalKudos = SumOver(SubsOfUser(u), KudosEarnedOf)
          /\ users[u].weeklyKudos = SumOver(SubsOfUser(u), KudosEarnedOf)
    /\ \A i \in DOMAIN submissions :
          DiscoveryRows(submissions[i].userId, submissions[i].storyId)
              = IF submissions[i].kudosEarned > 0 THEN 1 ELSE 0

\* the case of C2: the story calculateKudos is about to read is settled, has
\* no submission, or does not exist
C2_Case(s) ==
    \/ ~ story[s].exists
    \/ story[s].kudosDistributed
    \/ story[s].status = "settled"
    \/ Cardinality(SubsOf(s)) = 0

\* C2: calculateKudos on a story that is already settled, has no submission
\* or does not exist returns success = false, totalKudosDistributed = 0,
\* submissionsProcessed = 0 to its caller, and no story, submission, user,
\* ledger or snapshot row changes.
C2_NotEligibleIsNoOp ==
    [][ \A p \in SettleProcs :
          ( /\ kproc[p].pc = "calc"
            /\ kproc'[p].pc # "calc"
            /\ C2_Case(kproc[p].storyId) )
          => /\ kproc'[p].pc \in {"done", "loop"}
             /\ kproc'[p].result = [ success |-> FALSE,
                                     totalKudosDistributed |-> 0,
                                     submissionsProcessed |-> 0 ]
             /\ UNCHANGED db ]_vars

\* C2 happens: a call on a settled story has returned the not-eligible result
C2_Witness ==
    /\ kproc["direct"].pc = "done"
    /\ kproc["direct"].result.success = FALSE
    /\ kproc["direct"].storyId \in StoryIds
    /\ story[kproc["direct"].storyId].kudosDistributed
    /\ story[kproc["direct"].storyId].kudosPool > 0

\* C3: for every user, the amounts of their KudosHistory rows add up to their
\* totalKudos, after any settlements and weekly resets.
C3_LedgerReconciles == \A u \in UserIds : LedgerSum(u) = users[u].totalKudos

\* C4: once a story is settled, its kudosPool is the sum of the kudosEarned
\* of its submissions.
C4_PoolIsSumOfEarned ==
    \A s \in StoryIds :
        story[s].kudosDistributed =>
            story[s].kudosPool = SumOver(SubsOf(s), KudosEarnedOf)

\* the formula of C5, with h in half hours (h2) and the peak in tenths:
\* floor((100 + max(0, 100 - (order-1)*10) + max(0, 50 - 5h)
\*        + floor(peak/10)*5) * (2 if isOriginal else 1))
C5_Formula(order, h2, peak, isOriginal) ==
    LET early == IF 100 - (order - 1) * 10 > 0 THEN 100 - (order - 1) * 10 ELSE 0
        timing2 == IF 100 - 5 * h2 > 0 THEN 100 - 5 * h2 ELSE 0
        viral == ((peak \div ScoreScale) \div 10) * 5
        m == IF isOriginal THEN 2 ELSE 1
    IN  (((100 + early + viral) * 2 + timing2) * m) \div 2

\* the 1-based position of submission i among its story's, by submittedAt
C5_Order(i) ==
    1 + Cardinality({ j \in SubsOf(submissions[i].storyId) :
                        submissions[j].submittedAt < submissions[i].submittedAt })

\* half hours between submission i and the first of its story
C5_SinceFirst(i) ==
    LET others == SubsOf(submissions[i].storyId)
        first == CHOOSE j \in others :
                    \A k \in others : submissions[j].submittedAt <= submissions[k].submittedAt
    IN  submissions[i].submittedAt - submissions[first].submittedAt

C5_Peak(s) == IF story[s].peakViralityScore = Null THEN 0 ELSE story[s].peakViralityScore

\* C5: every credited submission carries the kudos of the formula for its
\* position, its delay after the first submission and the story's peak; an
\* original submission at t = 0 of a story of peak 80 carries 580, and the
\* second, non-original one two hours later carries 270.
C5_KudosFormula ==
    \A i \in DOMAIN submissions :
        submissions[i].kudosEarned # 0 =>
            /\ submissions[i].kudosEarned =
                   C5_Formula(C5_Order(i), C5_SinceFirst(i),
                              C5_Peak(submissions[i].storyId), submissions[i].isOriginal)
            /\ ( /\ C5_Peak(submissions[i].storyId) = 80 * ScoreScale
                 /\ C5_Order(i) = 1
                 /\ submissions[i].isOriginal )
               => submissions[i].kudosEarned = 580
            /\ ( /\ C5_Peak(submissions[i].storyId) = 80 * ScoreScale
                 /\ C5_Order(i) = 2
                 /\ C5_SinceFirst(i) = 2 * UnitsPerHour
                 /\ ~ submissions[i].isOriginal )
               => submissions[i].kudosEarned = 270

\* C5 happens: the story of peak 80 is settled with an original submission
\* and a second one two hours later
C5_Witness ==
    \E i, j \in DOMAIN submissions :
        /\ submissions[i].storyId = submissions[j].storyId
        /\ story[submissions[i].storyId].kudosDistributed
        /\ C5_Peak(submissions[i].storyId) = 80 * ScoreScale
        /\ submissions[i].isOriginal /\ ~ submissions[j].isOriginal
        /\ submissions[j].submittedAt - submissions[i].submittedAt = 2 * UnitsPerHour
        /\ submissions[i].kudosEarned = 580
        /\ submissions[j].kudosEarned = 270


\* C6: no user has two submissions on one story, whatever the interleaving
\* of discover requests.
C6_OneSubmissionPerUserStory ==
    \A u \in UserIds, s \in StoryIds : Cardinality(SubsBy(u, s)) <= 1

\* C7: a discover request that starts when its user already has a
\* submission on the story is answered 409, and the submissions are as they
\* were.
C7_RepeatDiscoverConflicts ==
    [][ \A d \in DiscProcs :
          ( /\ dproc[d].had
            /\ dproc[d].pc # "done"
            /\ dproc'[d].pc = "done" )
          => /\ dproc'[d].reply = 409
             /\ submissions' = submissions ]_vars

\* the weekly total of user u that the reset in progress read
C8_WeeklyRead(u) ==
    IF \E r \in rproc.usersWithKudos : r.id = u
    THEN (CHOOSE r \in rproc.usersWithKudos : r.id = u).weeklyKudos
    ELSE 0

\* the number of weekly_reset rows of user u in the ledger h, of amount a
C8_ResetRows(h, u, a) == BagCount(h, HistoryEntry(u, a, "weekly_reset", Null))

\* all the weekly_reset rows of user u in the ledger h
C8_AllResetRows(h, u) ==
    LET rows == { e \in DOMAIN h : e.userId = u /\ e.reason = "weekly_reset" }
    IN  SumOver(rows, [ e \in rows |-> h[e] ])

\* C8: a weekly reset that no settlement has crossed (the weekly totals it
\* read are still the users') adds one weekly_reset row of amount -w for
\* every user of weekly total w > 0 and none for the others, adds or removes
\* no other row, sets every weeklyKudos to 0 and weeklyRank to null, and
\* leaves every totalKudos and allTimeRank as it was.
C8_ResetEffect ==
    [][ ( /\ rproc.pc = "txn"
          /\ rproc'.pc = "cache"
          /\ \A u \in UserIds : users[u].weeklyKudos = C8_WeeklyRead(u) )
        => /\ \A u \in UserIds :
                LET w == users[u].weeklyKudos IN
                /\ users'[u].weeklyKudos = 0
                /\ users'[u].weeklyRank = Null
                /\ users'[u].totalKudos = users[u].totalKudos
                /\ users'[u].allTimeRank = users[u].allTimeRank
                /\ C8_AllResetRows(kudosHistory', u)
                       = C8_AllResetRows(kudosHistory, u) + (IF w > 0 THEN 1 ELSE 0)
                /\ w > 0 => C8_ResetRows(kudosHistory', u, 0 - w)
                                = C8_ResetRows(kudosHistory, u, 0 - w) + 1
           /\ \A e \in DOMAIN kudosHistory :
                e.reason # "weekly_reset" => BagCount(kudosHistory', e) = kudosHistory[e]
           /\ \A e \in DOMAIN kudosHistory' :
                e.reason # "weekly_reset" => e \in DOMAIN kudosHistory ]_vars

\* C8 happens: a reset has just committed, with a row of -w for a user who
\* keeps their total, next to a user without weekly kudos
C8_Witness ==
    /\ rproc.pc = "cache"
    /\ \E e \in DOMAIN kudosHistory :
          /\ e.reason = "weekly_reset"
          /\ e.amount < 0
          /\ users[e.userId].weeklyKudos = 0
          /\ users[e.userId].totalKudos = 0 - e.amount
    /\ \E u \in UserIds : users[u].totalKudos = 0 /\ C8_AllResetRows(kudosHistory, u) = 0

\* C9: no step lowers a story's peakViralityScore, and the story update that
\* ends an updateStoryVirality leaves peakViralityScore >= currentViralityScore.
C9_PeakNeverDecreases ==
    [][ \A s \in StoryIds :
          /\ story'[s].peakViralityScore >= story[s].peakViralityScore
          /\ story'[s] # story[s] =>
                story'[s].peakViralityScore >= story'[s].currentViralityScore ]_vars

\* (a) of C10: the three latest snapshots are all declining and their mean
\* velocityChange is below -5
C10_SustainedDecline(s) ==
    LET q == viralitySnapshots[s]
        last3 == { Len(q) - 2, Len(q) - 1, Len(q) }
    IN  /\ \A i \in last3 : q[i].trend = "declining"
        /\ q[Len(q) - 2].velocityChange + q[Len(q) - 1].velocityChange
             + q[Len(q)].velocityChange < 3 * ((-5) * ScoreScale)

\* (b) of C10: (peak - current) / peak > 0.40, for a positive peak
C10_DroppedFromPeak(s) ==
    /\ story[s].peakViralityScore > 0
    /\ story[s].currentViralityScore >= 0
    /\ 100 * (story[s].peakViralityScore - story[s].currentViralityScore)
           > 40 * story[s].peakViralityScore

\* C10: for a story with three snapshots or more, the result of
\* isViralityDecaying is isDecaying = true exactly when (a) or (b) holds.
C10_DecayingExactly ==
    \A s \in StoryIds :
        ( /\ decay[s].reason # "unchecked"
          /\ story[s].exists
          /\ Len(viralitySnapshots[s]) >= 3 )
        => ( decay[s].isDecaying <=> (C10_SustainedDecline(s) \/ C10_DroppedFromPeak(s)) )


\* C11: isViralityDecaying answers isDecaying = false for a story with fewer
\* than three snapshots, whatever its peak and current scores, and the
\* scheduler's sweep neither starts nor commits a settlement of such a story.
C11_NoSettlementBelowThreeSnapshots ==
    \A s \in StoryIds :
        Len(viralitySnapshots[s]) < 3 =>
            /\ decay[s].reason # "unchecked" => ~ decay[s].isDecaying
            /\ kproc["sched"].storyId # s
            /\ ~ story[s].kudosDistributed

\* C11 happens: a sweep has gone over a story with two snapshots whose score
\* fell by more than 40% from its peak, and the detector has answered for it
C11_Witness ==
    /\ Len(viralitySnapshots[1]) = 2
    /\ story[1].currentViralityScore > 0
    /\ 10 * (story[1].peakViralityScore - story[1].currentViralityScore)
           > 4 * story[1].peakViralityScore
    /\ decay[1].reason = "Not enough data"
    /\ kproc["sched"].pc = "loop"
    /\ kproc["sched"].todo = {}


\* the number of active timers that run fn
C12_TimerCount(fn) == Cardinality({ t \in timers : t.fn = fn })

\* a call of the exported job function fn returns in this step
C12_Returns(fn) == jobCall.fn = fn /\ ~ jobCall.returned /\ jobCall'.returned

\* C12: after any start and stop calls there is at most one check timer, one
\* weekly-reset timer and one tracker timer, isCalculatorRunning and
\* isTrackerRunning are true exactly when their job's timers are active; a
\* start while running adds no timer and begins no run, and a stop while
\* stopped changes nothing.
C12_OneTimerPerJob ==
    /\ [] ( /\ C12_TimerCount("runKudosCheck") <= 1
            /\ C12_TimerCount("checkWeeklyReset") <= 1
            /\ C12_TimerCount("runViralityUpdate") <= 1
            /\ isCalculatorRunning <=> TimerActive("runKudosCheck")
            /\ isCalculatorRunning <=> TimerActive("checkWeeklyReset")
            /\ isTrackerRunning <=> TimerActive("runViralityUpdate") )
    /\ [][ /\ (C12_Returns("startKudosCalculator") /\ isCalculatorRunning)
               => UNCHANGED << timers, checkIntervalId, resetIntervalId >>
           /\ (C12_Returns("startViralityTracker") /\ isTrackerRunning)
               => UNCHANGED << timers, intervalId, viralityRuns >>
           /\ (C12_Returns("stopKudosCalculator") /\ ~ isCalculatorRunning)
               => UNCHANGED << timers, checkIntervalId, resetIntervalId >>
           /\ (C12_Returns("stopViralityTracker") /\ ~ isTrackerRunning)
               => UNCHANGED << timers, intervalId, viralityRuns >> ]_vars

\* C12 happens: startViralityTracker has returned from a call made while the
\* tracker was running, both jobs are running, and there are three timers
C12_Witness ==
    /\ jobCall = [ fn |-> "startViralityTracker", returned |-> TRUE, wasRunning |-> TRUE ]
    /\ isTrackerRunning
    /\ isCalculatorRunning
    /\ Cardinality(timers) = 3

\* C13: the process has not exited while a sweep of the scheduler, or the
\* calculateKudos it called, is between its start and its end.
C13_ExitAfterSettlement ==
    process = "exited" => kproc["sched"].pc = "idle"


\* the ranks `rank` of the users with key > 0 are exactly 1..n, in an order
\* consistent with descending key, and the other users hold no rank
C14_Dense(key, rank) ==
    LET ranked == { u \in UserIds : key[u] > 0 } IN
    /\ { rank[u] : u \in ranked } = 1 .. Cardinality(ranked)
    /\ \A u, v \in ranked : key[u] > key[v] => rank[u] < rank[v]
    /\ \A u \in UserIds \ ranked : rank[u] = Null

\* a ranking pass over `key` gives every user the rank they hold, whatever
\* order the store returns equal keys in
C14_Stable(key, rank) ==
    \A q \in DescOrders({ u \in UserIds : key[u] > 0 }, key) :
        \A i \in DOMAIN q : rank[q[i]] = i

\* C14: when a run of updateLeaderboards ends and no user's kudos changed
\* since it began, weekly ranks are 1..n over the users with weekly kudos,
\* in descending order of weeklyKudos, users without weekly kudos hold no
\* weekly rank, the same holds of all-time ranks over totalKudos, and a
\* further run would change no rank.
C14_RanksDense ==
    [][ \A p \in SettleProcs :
          ( /\ kproc[p].pc \in {"lba_read", "lba_write"}
            /\ kproc'[p].pc = "cache"
            /\ kproc[p].lbSeen = KudosNow )
          => LET weekly == [ u \in UserIds |-> users'[u].weeklyKudos ]
                 total == [ u \in UserIds |-> users'[u].totalKudos ]
                 weeklyRank == [ u \in UserIds |-> users'[u].weeklyRank ]
                 allTimeRank == [ u \in UserIds |-> users'[u].allTimeRank ]
             IN  /\ C14_Dense(weekly, weeklyRank)
                 /\ C14_Dense(total, allTimeRank)
                 /\ C14_Stable(weekly, weeklyRank)
                 /\ C14_Stable(total, allTimeRank) ]_vars

\* the greatest composite score of a list of candidates
TopComposite(candidates) ==
    CHOOSE c \in { candidates[i].compositeScore : i \in DOMAIN candidates } :
        \A i \in DOMAIN candidates : candidates[i].compositeScore <= c

\* result r is the decision the thresholds t give for the candidates returned
C15_Mapping(r, returned, t) ==
    LET c == TopComposite(returned)
        is(decision, action) == r.decision = decision /\ r.suggestedAction = action
    IN  /\ returned = << >> =>
              is("no_match", "create_new") /\ r.bestMatch = NoCandidate
        /\ returned # << >> =>
              /\ Reaches(c, t.exactMatch) => is("exact_match", "join_existing")
              /\ Reaches(c, t.likelyMatch) /\ ~ Reaches(c, t.exactMatch)
                    => is("likely_match", "user_confirm")
              /\ Reaches(c, t.related) /\ ~ Reaches(c, t.likelyMatch)
                    => is("related", "create_new")
              /\ ~ Reaches(c, t.related)
                    => is("no_match", "create_new") /\ r.bestMatch = NoCandidate
        /\ r.bestMatch # NoCandidate =>
              /\ \E i \in DOMAIN returned : returned[i] = r.bestMatch
              /\ r.bestMatch.compositeScore = c

\* C15: once determineMatch has decided, with c the greatest composite score
\* of the candidates findMatchingMarkets returned: exact_match/join_existing
\* when c >= exactMatch, likely_match/user_confirm when likelyMatch <= c <
\* exactMatch, related/create_new when related <= c < likelyMatch,
\* no_match/create_new without a best match when c < related or there is no
\* candidate; and a best match is one of the candidates, of composite score c.
C15_DecisionByThreshold ==
    \A p \in SubmitProcs :
        sproc[p].matchResult.decision # "none" =>
            C15_Mapping(sproc[p].matchResult, sproc[p].candidates, MATCH_CONFIG.thresholds)

\* C15 happens: an exact match at the threshold itself, whose best match was
\* not the first candidate of the loop
C15_Witness ==
    \E p \in SubmitProcs :
        /\ sproc[p].matchResult.decision = "exact_match"
        /\ sproc[p].matchResult.bestMatch.compositeScore = DefaultThresholds.exactMatch * 100
        /\ sproc[p].matchResult.bestMatch.storyId = 1
        /\ Len(sproc[p].candidates) = 2
        /\ sproc[p].candidates[2].compositeScore < DefaultThresholds.exactMatch * 100

\* C16: every candidate findMatchingMarkets has kept has a semantic score of
\* at least minSemantic, its story has an embedding, and the submission has
\* one.
C16_SemanticFloor ==
    \A p \in SubmitProcs :
        \A i \in DOMAIN sproc[p].candidates :
            /\ sproc[p].candidates[i].semanticScore >= MATCH_CONFIG.thresholds.minSemantic
            /\ storyMatch[sproc[p].candidates[i].storyId].embedding
            /\ sproc[p].submissionEmbedding

\* C16 happens: of two stories with embeddings, one was skipped with a
\* semantic score of 0.45 and the other was returned
C16_Witness ==
    \E p \in SubmitProcs :
        /\ sproc[p].matchResult.decision # "none"
        /\ \E k \in sproc[p].skipped : k.semanticScore = 45
        /\ Len(sproc[p].candidates) = 1

\* the Story rows of joinExistingMarket that are linked to event e
JoinedRows(e) == { i \in DOMAIN joined : joined[i].canonicalEventId = e }

\* the discoveries of a story of event e that are not the original one
Discoveries(e) ==
    { i \in DOMAIN submissions :
        /\ storyMatch[submissions[i].storyId].canonicalEventId = e
        /\ ~ submissions[i].isOriginal }

\* the entities of the stories of event e: created with it, or joined
Contributed(e) ==
    UNION ( { storyMatch[s].entitiesPeople :
                s \in { x \in StoryIds : story[x].exists
                                          /\ storyMatch[x].canonicalEventId = e } }
            \cup { joined[i].people : i \in JoinedRows(e) } )

\* C17: a canonical event counts one member and one more for every
\* submission that joined its story, its entity set has no two entries that
\* differ in case only and is as large as the case-insensitive union of the
\* sets of its stories, and it has the source domain of every joined story.
C17_EventIsUnionOfJoins ==
    \A e \in EventIds :
        canonicalEvent[e].exists =>
            /\ canonicalEvent[e].storyCount
                  = 1 + Cardinality(JoinedRows(e)) + Cardinality(Discoveries(e))
            /\ \A x, y \in canonicalEvent[e].entitiesPeople :
                  toLowerCase(x) = toLowerCase(y) => x = y
            /\ Cardinality(canonicalEvent[e].entitiesPeople)
                  = Cardinality({ toLowerCase(x) : x \in Contributed(e) })
            /\ \A i \in JoinedRows(e) :
                  sourceDomainOf(joined[i].url) \in canonicalEvent[e].sourceDomains

\* C18: the transaction of a join that repeats one already made (same user,
\* url, entities and market) leaves every canonical event as it was.
C18_RetryIsNoOp ==
    [][ \A j \in JoinProcs :
          ( /\ jproc[j].pc = "txn"
            /\ jproc'[j].pc = "done"
            /\ \E i \in DOMAIN joined :
                  joined[i] = [ userId |-> jproc[j].userId, url |-> jproc[j].url,
                                people |-> jproc[j].people,
                                canonicalEventId |-> jproc[j].canonicalEventId,
                                matchedToMarketId |-> jproc[j].marketId ] )
          => canonicalEvent' = canonicalEvent ]_vars

\* C19: every threshold is within [0, 1] and related <= likelyMatch <=
\* exactMatch, in every configuration.
C19_ThresholdsOrdered ==
    LET t == MATCH_CONFIG.thresholds IN
    /\ \A k \in DOMAIN t : t[k] >= 0 /\ t[k] <= 100
    /\ t.related <= t.likelyMatch
    /\ t.likelyMatch <= t.exactMatch

\* every generateEmbedding call of the request returned null
C20_Degraded(p) == ~ sproc[p].embedding /\ ~ sproc[p].submissionEmbedding

\* C20: in a request whose generateEmbedding calls returned null,
\* determineMatch decides no_match with create_new and the handler goes on
\* to the create transaction; and the create transaction of a request
\* without embedding adds the story, with canonicalEventId null, and its
\* original submission by the user, and creates no canonical event.
C20_DegradedModeCreates ==
    /\ [] ( \A p \in SubmitProcs :
              (sproc[p].matchResult.decision # "none" /\ C20_Degraded(p)) =>
                  /\ sproc[p].matchResult.decision = "no_match"
                  /\ sproc[p].matchResult.suggestedAction = "create_new"
                  /\ \/ sproc[p].pc = "create"
                     \/ sproc[p].pc = "done" /\ sproc[p].reply = 200 )
    /\ [][ \A p \in SubmitProcs :
             (sproc[p].pc = "create" /\ sproc'[p].pc = "done" /\ ~ sproc[p].embedding) =>
                 LET s == sproc'[p].storyId IN
                 /\ ~ story[s].exists
                 /\ story'[s].exists
                 /\ storyMatch'[s].canonicalEventId = Null
                 /\ canonicalEvent' = canonicalEvent
                 /\ Len(submissions') = Len(submissions) + 1
                 /\ submissions'[Len(submissions')].userId = sproc[p].userId
                 /\ submissions'[Len(submissions')].storyId = s
                 /\ submissions'[Len(submissions')].isOriginal ]_vars

\* C20 happens: a story with an embedding exists, a request got no embedding,
\* was decided no_match and has created its story without a canonical event
C20_Witness ==
    \E p \in SubmitProcs :
        /\ sproc[p].pc = "done"
        /\ sproc[p].reply = 200
        /\ C20_Degraded(p)
        /\ sproc[p].matchResult.decision = "no_match"
        /\ storyMatch[1].embedding
        /\ story[sproc[p].storyId].exists
        /\ storyMatch[sproc[p].storyId].canonicalEventId = Null

\* C21: within one settlement, of any two submissions the one with the
\* earlier submittedAt gets an earlyBonus at least as large as the later
\* one's, and the earlyBonus is 0 from the 11th submission on.
C21_EarlyBonusNonIncreasing ==
    LET at == settleLoop.submittedAt
        bonus == settleLoop.earlyBonus
    IN  /\ \A a, b \in DOMAIN bonus : at[a] < at[b] => bonus[a] >= bonus[b]
        /\ \A a \in DOMAIN bonus : a >= 11 => bonus[a] = 0

\* C21 happens: a settlement has gone through twelve submissions, the tenth
\* earlier than the eleventh and with a larger bonus
C21_Witness ==
    /\ Len(settleLoop.earlyBonus) >= 12
    /\ settleLoop.submittedAt[10] < settleLoop.submittedAt[11]
    /\ settleLoop.earlyBonus[10] > settleLoop.earlyBonus[11]
    /\ settleLoop.earlyBonus[1] = 100

\* the sweep of runKudosCheck ends only when every story it selected has
\* had its turn
C22_SweepEndsDone ==
    (kproc["sched"].pc # "idle" /\ kproc'["sched"].pc = "idle")
        => kproc["sched"].todo = {}

\* the batch of updateAllActiveVirality ends only when every story it
\* selected has had its turn
C22_BatchEndsDone ==
    (vproc["tick"].pc # "idle" /\ vproc'["tick"].pc = "idle")
        => vproc["tick"].todo = {}

\* C22: a sweep of runKudosCheck and a batch of updateAllActiveVirality end
\* only when every story they selected has had its turn, whatever failed in
\* the turn of another story (its virality update, its decay check or its
\* settlement).
C22_FailureSkipsNoStory == [][ C22_SweepEndsDone /\ C22_BatchEndsDone ]_vars

\* the part of C22 about the virality batch
C22_BatchGoesOn == [][ C22_BatchEndsDone ]_vars

\* the part of C22 about a failed settlement: the sweep goes on from it
C22_SettlementFailureGoesOn ==
    [][ (kproc["sched"].msg \in {"threw", "transaction failed"} /\ kproc["sched"].pc = "loop"
           /\ kproc'["sched"].pc = "idle")
            => kproc["sched"].todo = {} ]_vars

\* C23: when the settlement transaction of a story fails, no row of the
\* store changes (no submission's kudosEarned, no user's totals, no ledger
\* entry, no story field), the attempt runs neither updateLeaderboards nor
\* the cache invalidation, and the story is still not distributed, still
\* active and still has its submissions.
C23_FailedTransactionLeavesNothing ==
    [][ \A p \in SettleProcs :
          (kproc[p].pc = "txn" /\ kproc'[p].msg = "transaction failed") =>
              LET s == kproc[p].storyId IN
              /\ db' = db
              /\ kproc'[p].pc \in {"loop", "done"}
              /\ ~ kproc'[p].result.success
              /\ ~ story'[s].kudosDistributed
              /\ story'[s].status = story[s].status
              /\ \A i \in DOMAIN kproc[p].subs :
                    /\ submissions'[kproc[p].subs[i]].storyId = s
                    /\ submissions'[kproc[p].subs[i]].kudosEarned = 0 ]_vars

\* C23 happens: the transaction of story 1 has just failed in a sweep whose
\* settlement of story 2 went through; story 1 is unsettled and nothing was
\* credited for it
C23_Witness ==
    /\ kproc["sched"].pc = "loop"
    /\ kproc["sched"].msg = "transaction failed"
    /\ kproc["sched"].storyId = 1
    /\ ~ story[1].kudosDistributed
    /\ story[1].status = "active"
    /\ story[2].kudosDistributed
    /\ \A i \in SubsOf(1) : submissions[i].kudosEarned = 0
    /\ \A e \in DOMAIN kudosHistory : e.storyId # 1

\* the users with key > 0 hold the ranks 1..n, in an order consistent with
\* descending key
C24_Current(key, rank) ==
    LET ranked == { u \in UserIds : key[u] > 0 } IN
    /\ { rank[u] : u \in ranked } = 1 .. Cardinality(ranked)
    /\ \A u, v \in ranked : key[u] > key[v] => rank[u] < rank[v]

\* the stored weekly and all-time ranks reflect the stored kudos totals
C24_RanksCurrent ==
    /\ C24_Current(WeeklyKey, [ u \in UserIds |-> users[u].weeklyRank ])
    /\ C24_Current(AllTimeKey, [ u \in UserIds |-> users[u].allTimeRank ])

\* resetWeeklyKudos returns, and no settlement has committed since its
\* transaction (every weeklyKudos is still 0)
C24_ResetReturns ==
    /\ rproc.pc = "cache"
    /\ rproc'.pc = "idle"
    /\ \A u \in UserIds : users[u].weeklyKudos = 0

\* calculateKudos returns success
C24_SettlementReturns ==
    \E p \in SettleProcs :
        kproc[p].pc = "cache" /\ kproc'[p].pc # "cache" /\ kproc'[p].result.success

\* C24: when a successful settlement returns, and when a weekly reset
\* returns with no kudos credited since its transaction, the leaderboards
\* have been recomputed: the stored weekly and all-time ranks reflect the
\* kudos totals.
C24_RecomputedBeforeReturn ==
    [][ (C24_ResetReturns \/ C24_SettlementReturns) => C24_RanksCurrent' ]_vars

\* the part of C24 about the weekly reset
C24_ResetRecomputes == [][ C24_ResetReturns => C24_RanksCurrent' ]_vars

\* the part of C24 about settlements
C24_SettlementRecomputes == [][ C24_SettlementReturns => C24_RanksCurrent' ]_vars

\* C25: the transaction of a weekly reset writes, for every user whose
\* weeklyKudos it zeroes, one weekly_reset row of minus that weeklyKudos.
C25_ResetRowMatchesZeroed ==
    [][ (rproc.pc = "txn" /\ rproc'.pc = "cache") =>
          \A u \in UserIds :
              users[u].weeklyKudos > 0 =>
                  LET e == HistoryEntry(u, 0 - users[u].weeklyKudos, "weekly_reset", Null)
                  IN  /\ users'[u].weeklyKudos = 0
                      /\ BagCount(kudosHistory', e) = BagCount(kudosHistory, e) + 1 ]_vars

\* the candidates of q that hold the greatest composite score of q
C26_Top(q) ==
    { i \in DOMAIN q : \A j \in DOMAIN q : q[j].compositeScore <= q[i].compositeScore }

\* C26: the list findMatchingMarkets returns is in non-increasing order of
\* composite score and has at most maxCandidates entries; of two candidates
\* with the same composite score the more recent story comes first; so the
\* best match of determineMatch is the most recent of the stories with the
\* greatest composite score.
C26_RankedNewestFirst ==
    matchCall.called =>
        LET found == matchCall.found
            returned == matchCall.returned
            bestMatch == matchCall.matchResult.bestMatch
        IN  /\ Len(returned) <= maxCandidates
            /\ \A i, j \in DOMAIN returned :
                  i < j => /\ returned[i].compositeScore >= returned[j].compositeScore
                           /\ returned[i].compositeScore = returned[j].compositeScore
                                 => returned[i].storyId > returned[j].storyId
            /\ bestMatch # NoCandidate =>
                  /\ \E i \in C26_Top(found) : bestMatch = found[i]
                  /\ \A i \in C26_Top(found) : found[i].storyId <= bestMatch.storyId

\* C26 happens: 22 candidates were found, 20 are returned, the first two tie
\* and the best match is the more recent of them
C26_Witness ==
    /\ matchCall.called
    /\ Len(matchCall.found) = 22
    /\ Len(matchCall.returned) = 20
    /\ matchCall.returned[1].compositeScore = matchCall.returned[2].compositeScore
    /\ matchCall.returned[20].compositeScore < matchCall.returned[1].compositeScore
    /\ matchCall.matchResult.bestMatch = matchCall.returned[1]
    /\ matchCall.matchResult.bestMatch.storyId > matchCall.returned[2].storyId

\* C27: every submission of a settled story has been credited by the
\* settlement: its kudosEarned is at least BASE_KUDOS and its user's total
\* holds it.
C27_SettledStoryAllCredited ==
    \A i \in DOMAIN submissions :
        story[submissions[i].storyId].kudosDistributed =>
            /\ submissions[i].kudosEarned >= BASE_KUDOS
            /\ users[submissions[i].userId].totalKudos >= submissions[i].kudosEarned

\* C28: a story becomes settled only from active; a settled story keeps its
\* status and its kudosDistributed flag; and status = settled holds exactly
\* when kudosDistributed is true.
C28_SettledOnlyFromActive ==
    /\ [] ( \A s \in StoryIds :
              story[s].exists => (story[s].status = "settled" <=> story[s].kudosDistributed) )
    /\ [][ \A s \in StoryIds :
             /\ (story'[s].status = "settled" /\ story[s].status # "settled")
                   => story[s].status = "active"
             /\ story[s].status = "settled"
                   => story'[s].status = "settled" /\ story'[s].kudosDistributed ]_vars

\* no two users with key > 0 hold the same rank, and a user with more holds
\* the smaller rank
C29_Distinct(key, rank) ==
    \A u, v \in UserIds :
        (u # v /\ key[u] > 0 /\ key[v] > 0) =>
            /\ rank[u] # rank[v]
            /\ key[u] > key[v] => rank[u] < rank[v]

\* C29: once every recomputation of the leaderboards and every settlement
\* has finished, no two users with weekly kudos share a weeklyRank, no two
\* users with total kudos share an allTimeRank, and the ranks follow the
\* descending kudos.
C29_RanksDistinctWhenQuiet ==
    (\A p \in SettleProcs : kproc[p].pc = "idle") =>
        /\ C29_Distinct(WeeklyKey, [ u \in UserIds |-> users[u].weeklyRank ])
        /\ C29_Distinct(AllTimeKey, [ u \in UserIds |-> users[u].allTimeRank ])

\* story s is active, not settled, has a submission and is decaying
C30_Due(s) ==
    /\ story[s].exists
    /\ story[s].status = "active"
    /\ ~ story[s].kudosDistributed
    /\ SubsOf(s) # {}
    /\ isViralityDecaying(s).isDecaying

C30_Settled(s) == story[s].kudosDistributed /\ story[s].status = "settled"

====
